---- MODULE Spec2Model ----
(***************************************************************************)
(* State-machine model of the device lifecycle layer of housetrap/idf-app: *)
(* the Provisioner (provisioner.cpp), the MQTT client (mqtt.cpp), the      *)
(* Updater (firmware_updater.cpp) and the supervisor (app.cpp, main.cpp).  *)
(*                                                                         *)
(* Threads: the main task (app_main), the default event loop task (which   *)
(* runs Provisioner::EventHandler), the MQTT client task (which runs       *)
(* MQTT::EventHandler) and the HTTP server task (which runs the route      *)
(* handlers).  Every handler is one action; the main task is split at its  *)
(* blocking points.  Variables marked "history" record what happened; the  *)
(* program does not read them.                                             *)
(***************************************************************************)
EXTENDS Integers, Sequences, FiniteSets, TLC

(***************************************************************************)
(* Program constants.                                                      *)
(***************************************************************************)
kMaxRetriesCount == 5

(***************************************************************************)
(* Bounds of the model.                                                    *)
(***************************************************************************)
\* Largest of the representative values an uninitialised int may hold.
GarbageInt == 7

\* Most subscriptions the application registers.
MaxSubs == 2

\* Most MQTT_EVENT_CONNECTED events counted per boot.
MaxConnects == 2

\* Provisioner::retries_ has no initialiser and the constructor does not
\* assign it: after `new Provisioner()` its value is indeterminate.
UninitInts == {-1, 0, GarbageInt}

VARIABLES
    pc,                 \* position of the main task (app_main)
    retries_,           \* Provisioner::retries_
    wifi_event_group_,  \* bit kWifiConnectedEvent of Provisioner::wifi_event_group_
    prov_state,         \* state of the provisioning state machine
    wifi,               \* state of the Wi-Fi station
    provisioned,        \* Wi-Fi credentials are stored (wifi_prov_mgr_is_provisioned)
    lastEvent,          \* last event Provisioner::EventHandler completed in this boot
    failStreak,         \* history: WIFI_PROV_CRED_FAIL events handled since Provision
                        \* began or since the last time the ceiling was reached
    gotIpSinceCall,     \* history: IP_EVENT_STA_GOT_IP handled since Provision began
    nvs_mqtt,           \* the mqtt namespace holds "broker" and "topic-base"
    client_,            \* MQTT::client_: "uninit", "inited" or "started"
    connected_,         \* MQTT::connected_
    fatal_error_,       \* MQTT::fatal_error_
    subscriptions_,     \* MQTT::subscriptions_
    lastReplay,         \* subscribe calls issued by the last MQTT_EVENT_CONNECTED
    lastSubFailed,      \* history: results of those subscribe calls (TRUE = failed)
    connects,           \* history: MQTT_EVENT_CONNECTED events handled in this boot
    errorSeen,          \* history: an MQTT_EVENT_ERROR was delivered in this boot
    lastMqttEvent,      \* last event MQTT::EventHandler completed in this boot
    lastPublish,        \* history: the last App::PublishMessage call
    httpd_started,      \* the HTTP server serves the routes
    running,            \* index of the running OTA partition
    ota_state,          \* esp_ota_img_states_t of each OTA partition
    otaResult,          \* history: result of the last esp_https_ota call, until
                        \* Provision is next called
    updateRet,          \* value Updater::Update last returned in this boot
    nvs_store,          \* entries of the namespace "mqtt" of the NVS partition
    nvs_ns,             \* the namespace exists in the partition
    nvs_lib,            \* open handle of the NVS library: "none", "ro" or "rw"
    handle_,            \* NvsHandle::handle_ of the NvsHandle object in use
    releases,           \* history: nvs_close calls since the last successful Open
    lastSet,            \* history: the last successful Set and what became of it
    erased,             \* history: keys erased and not set again since
    lastCall,           \* history: the last call on the store in this boot
    country,            \* the country code the caller passes to Provision
    country_code,       \* the country code the Wi-Fi driver applies
    provPath,           \* history: what Provision called, InitSTA or
                        \* wifi_prov_mgr_start_provisioning
    wpc,                \* position of the ReprovionerTask
    prev_btn_state,     \* local prev_btn_state of App::ReprovionerTask
    held,               \* now - start_pressed at the last poll, in ms
    resetCalls,         \* history: wifi_prov_mgr_reset_provisioning calls in this boot
    gi_pc,              \* position of each thread in S::GetInstance
    instance_,          \* S::instance_ (0 is nullptr)
    semaphore_,         \* holder of S::semaphore_ (0 is free)
    constructed,        \* history: objects of S constructed in this boot
    gi_ret,             \* value S::GetInstance returned to each thread
    headers_,           \* Updater::headers_
    lastRequest,        \* history: the download request of the last Update
    upgradeReplies,     \* history: responses sent to the last /firmware-upgrade
    configReads,        \* history: settings read from the NVS in this boot
    mqtt_cfg            \* result of MQTT::Init and the configuration it built

provVars == <<retries_, wifi_event_group_, prov_state, wifi, provisioned,
              lastEvent, failStreak, gotIpSinceCall>>
mqttVars == <<nvs_mqtt, client_, connected_, fatal_error_, subscriptions_,
              lastReplay, lastSubFailed, connects, errorSeen, lastMqttEvent,
              lastPublish>>
mqttRest == <<client_, connected_, fatal_error_, subscriptions_,
              lastReplay, lastSubFailed, connects, errorSeen, lastMqttEvent,
              lastPublish>>
updVars == <<httpd_started, running, ota_state, otaResult, updateRet>>
nvsVars == <<nvs_store, nvs_ns, nvs_lib, handle_, releases, lastSet, erased,
             lastCall>>

provInVars == <<country, country_code, provPath>>
watchVars == <<wpc, prev_btn_state, held, resetCalls>>
singleVars == <<gi_pc, instance_, semaphore_, constructed, gi_ret>>
hdrVars == <<headers_, lastRequest>>
extVars == <<provInVars, watchVars, singleVars, hdrVars, upgradeReplies,
             configReads, mqtt_cfg>>
\* What a restart leaves as it was, besides the flash.
keptVars == <<country, lastRequest, upgradeReplies>>

vars == <<pc, provVars, mqttVars, updVars, nvsVars, extVars>>

ProvStates == {"Idle", "AwaitingCredentials", "Connecting", "CredentialFailure",
               "Connected", "Deinit"}
WifiStates == {"off", "started", "connecting", "got_ip"}

\* (topic, qos) pairs the application may register.
Subs == {<<"a", 1>>, <<"b", 2>>}

OtaStates == {"ESP_OTA_IMG_UNDEFINED", "ESP_OTA_IMG_VALID",
              "ESP_OTA_IMG_PENDING_VERIFY", "ESP_OTA_IMG_ABORTED"}

\* What the OTA data holds for a partition: a state, or no entry at all (an
\* image written by the flashing tool and never selected through OTA).
NoOtaData == "NO_OTA_DATA"

\* Results of esp_https_ota.
OtaResults == {"ESP_OK", "ESP_ERR_HTTP_CONNECT", "ESP_ERR_OTA_VALIDATE_FAILED"}

NoPublish == [called |-> FALSE, connected |-> FALSE, replayed |-> FALSE,
              handed |-> FALSE, ret |-> "none"]

(***************************************************************************)
(* Integers of up to 64 bits and the double that carries them.             *)
(* An integer is a sign and a magnitude; the magnitude is a sequence of     *)
(* LimbCount limbs of LimbBits bits, least significant first.              *)
(***************************************************************************)
LimbBits == 16
LimbCount == 5
LimbBase == 2 ^ LimbBits

\* Bits of the significand of a double (DBL_MANT_DIG).
DoubleDigits == 53

NvsIntTypes == {"uint8", "int8", "uint16", "int16",
                "uint32", "int32", "uint64", "int64"}
NvsTypes == NvsIntTypes \cup {"string", "blob"}

TypeBits(t) ==
    CASE t \in {"uint8", "int8"} -> 8
      [] t \in {"uint16", "int16"} -> 16
      [] t \in {"uint32", "int32"} -> 32
      [] t \in {"uint64", "int64"} -> 64
TypeSigned(t) == t \in {"int8", "int16", "int32", "int64"}

ZeroMag == [i \in 1..LimbCount |-> 0]
\* 2^e, and 2^e - 1, as magnitudes (e < LimbBits * LimbCount).
PowMag(e) ==
    [i \in 1..LimbCount |-> IF i = (e \div LimbBits) + 1 THEN 2 ^ (e % LimbBits) ELSE 0]
PowMinusOneMag(e) ==
    [i \in 1..LimbCount |->
        IF i < (e \div LimbBits) + 1 THEN LimbBase - 1
        ELSE IF i = (e \div LimbBits) + 1 THEN 2 ^ (e % LimbBits) - 1
        ELSE 0]

Num(neg, mag) == [neg |-> neg, mag |-> mag]

\* Number of significant bits of a magnitude.
LimbLen(x) == CHOOSE n \in 0..LimbBits : x < 2 ^ n /\ (n = 0 \/ x >= 2 ^ (n - 1))
TopLimb(m) ==
    IF m = ZeroMag THEN 0
    ELSE CHOOSE i \in 1..LimbCount : m[i] # 0 /\ \A j \in (i + 1)..LimbCount : m[j] = 0
MagLen(m) ==
    IF m = ZeroMag THEN 0
    ELSE LimbBits * (TopLimb(m) - 1) + LimbLen(m[TopLimb(m)])

\* m + c * 2^(LimbBits * (i - 1))
RECURSIVE AddCarry(_, _, _)
AddCarry(m, i, c) ==
    IF c = 0 \/ i > LimbCount THEN m
    ELSE AddCarry([m EXCEPT ![i] = (m[i] + c) % LimbBase], i + 1,
                  (m[i] + c) \div LimbBase)

\* Conversion of an integer to double: the magnitude keeps its DoubleDigits
\* most significant bits, rounded to nearest, ties to even.
RoundMag(m) ==
    IF MagLen(m) <= DoubleDigits THEN m
    ELSE LET unit == 2 ^ (MagLen(m) - DoubleDigits)
             low == m[1] % unit
             trunc == [m EXCEPT ![1] = m[1] - low]
             odd == (m[1] \div unit) % 2 = 1
         IN  IF 2 * low > unit \/ (2 * low = unit /\ odd)
             THEN AddCarry(trunc, 1, unit)
             ELSE trunc
ToDouble(v) == Num(v.neg, RoundMag(v.mag))

\* Whether the integral double d is in the range of the integer type t.
InRange(t, d) ==
    IF TypeSigned(t)
    THEN \/ MagLen(d.mag) <= TypeBits(t) - 1
         \/ d.neg /\ d.mag = PowMag(TypeBits(t) - 1)
    ELSE ~d.neg /\ MagLen(d.mag) <= TypeBits(t)

MaxOf(t) == Num(FALSE, PowMinusOneMag(IF TypeSigned(t) THEN TypeBits(t) - 1
                                                       ELSE TypeBits(t)))
MinOf(t) == IF TypeSigned(t) THEN Num(TRUE, PowMag(TypeBits(t) - 1))
                             ELSE Num(FALSE, ZeroMag)

(***************************************************************************)
(* The NVS partition as the application uses it: the namespace "mqtt".     *)
(* An entry has a type and a value: a number for the integer types, a       *)
(* sequence of bytes for strings (no zero byte) and blobs.                  *)
(***************************************************************************)
NvsKeys == {"broker", "topic-base"}

Entry(t, n, b) == [type |-> t, num |-> n, bytes |-> b]
IntEntry(t, n) == Entry(t, n, <<>>)
NoEntry == Entry("none", Num(FALSE, ZeroMag), <<>>)

\* The values the callers of the model store: the extremes of every integer
\* type, an odd 64-bit value above 2^DoubleDigits, a string and a blob.
BigOdd == Num(FALSE, AddCarry(PowMag(DoubleDigits), 1, 1))
IntInputs(t) ==
    {MinOf(t), MaxOf(t)} \cup (IF TypeBits(t) = 64 THEN {BigOdd} ELSE {})
StringInputs == {<<109, 113>>}
BlobInputs == {<<0, 255>>}

EmptyStore == [k \in NvsKeys |-> NoEntry]

\* What MQTT::Init needs: "broker" and "topic-base" readable as strings.
MqttConfigured(st) ==
    st["broker"].type = "string" /\ st["topic-base"].type = "string"

\* The handle of an NvsHandle object refers to an open handle of the library.
HandleValid(h, lib) == h # 0 /\ lib # "none"

\* nvs_set_*: replaces the entry of the key, whatever its type was.
nvs_set(st, h, lib, key, e) ==
    IF ~HandleValid(h, lib)
    THEN [err |-> "ESP_ERR_NVS_INVALID_HANDLE", store |-> st]
    ELSE IF lib = "ro"
    THEN [err |-> "ESP_ERR_NVS_READ_ONLY", store |-> st]
    ELSE [err |-> "ESP_OK", store |-> [st EXCEPT ![key] = e]]

\* Error codes of nvs_get_* for an entry stored with another type.
LibMismatchErrs == {"ESP_ERR_NVS_NOT_FOUND", "ESP_ERR_NVS_TYPE_MISMATCH"}

\* nvs_get_*: the possible results of reading key as type t.
nvs_get(st, h, lib, key, t) ==
    IF ~HandleValid(h, lib) THEN {"ESP_ERR_NVS_INVALID_HANDLE"}
    ELSE IF st[key].type = "none" THEN {"ESP_ERR_NVS_NOT_FOUND"}
    ELSE IF st[key].type # t THEN LibMismatchErrs
    ELSE {"ESP_OK"}

\* Conversion of the double d to the integer type t (the implicit conversion
\* of the argument of nvs_set_<t>): exact when d is in range, undefined
\* otherwise.
ConvOutcomes(t, d) == IF InRange(t, d) THEN {d} ELSE IntInputs(t)

\* NvsHandle::SetInt(key, type, value): the possible outcomes.
SetInt(st, h, lib, key, t, d) ==
    IF t \notin NvsIntTypes
    THEN {[err |-> "ESP_ERR_NVS_TYPE_MISMATCH", store |-> st]}
    ELSE {nvs_set(st, h, lib, key, IntEntry(t, c)) : c \in ConvOutcomes(t, d)}

\* NvsHandle::SetString, NvsHandle::SetBlob
SetString(st, h, lib, key, b) == nvs_set(st, h, lib, key, Entry("string", Num(FALSE, ZeroMag), b))
SetBlob(st, h, lib, key, b) == nvs_set(st, h, lib, key, Entry("blob", Num(FALSE, ZeroMag), b))

\* NvsHandle::GetInt(key, type, &value): the possible outcomes.  In every
\* integer case *value is assigned from the local that nvs_get_<t> was to
\* fill; when nvs_get_<t> fails the local was never written.
GetInt(st, h, lib, key, t) ==
    IF t \notin NvsIntTypes
    THEN {[err |-> "ESP_ERR_NVS_TYPE_MISMATCH", assigned |-> FALSE,
           num |-> Num(FALSE, ZeroMag)]}
    ELSE UNION {
           IF e = "ESP_OK"
           THEN {[err |-> e, assigned |-> TRUE, num |-> ToDouble(st[key].num)]}
           ELSE {[err |-> e, assigned |-> TRUE, num |-> ToDouble(g)] :
                     g \in IntInputs(t)}
           : e \in nvs_get(st, h, lib, key, t)}

\* NvsHandle::GetString, NvsHandle::GetBlob with a buffer that is large
\* enough: nvs_get_str and nvs_get_blob write nothing when they fail.
GetBytes(st, h, lib, key, t) ==
    {[err |-> e, assigned |-> e = "ESP_OK",
      bytes |-> IF e = "ESP_OK" THEN st[key].bytes ELSE <<>>] :
         e \in nvs_get(st, h, lib, key, t)}
GetString(st, h, lib, key) == GetBytes(st, h, lib, key, "string")
GetBlob(st, h, lib, key) == GetBytes(st, h, lib, key, "blob")

\* NvsHandle::FindKey
FindKey(st, h, lib, key) ==
    IF ~HandleValid(h, lib)
    THEN [err |-> "ESP_ERR_NVS_INVALID_HANDLE", type |-> "none"]
    ELSE IF st[key].type = "none"
    THEN [err |-> "ESP_ERR_NVS_NOT_FOUND", type |-> "none"]
    ELSE [err |-> "ESP_OK", type |-> st[key].type]

\* NvsHandle::EraseKey, NvsHandle::EraseAll: nvs_erase_key and nvs_erase_all
\* remove the entries from the partition in the call.
EraseKey_Deferred(st, h, lib, key) ==
    IF ~HandleValid(h, lib)
    THEN [err |-> "ESP_ERR_NVS_INVALID_HANDLE", store |-> st]
    ELSE IF lib = "ro"
    THEN [err |-> "ESP_ERR_NVS_READ_ONLY", store |-> st]
    ELSE IF st[key].type = "none"
    THEN [err |-> "ESP_ERR_NVS_NOT_FOUND", store |-> st]
    ELSE [err |-> "ESP_OK", store |-> st]
EraseKey(st, h, lib, key) ==
    IF ~HandleValid(h, lib)
    THEN [err |-> "ESP_ERR_NVS_INVALID_HANDLE", store |-> st]
    ELSE IF lib = "ro"
    THEN [err |-> "ESP_ERR_NVS_READ_ONLY", store |-> st]
    ELSE IF st[key].type = "none"
    THEN [err |-> "ESP_ERR_NVS_NOT_FOUND", store |-> st]
    ELSE [err |-> "ESP_OK", store |-> [st EXCEPT ![key] = NoEntry]]
EraseAll(st, h, lib) ==
    IF ~HandleValid(h, lib)
    THEN [err |-> "ESP_ERR_NVS_INVALID_HANDLE", store |-> st]
    ELSE IF lib = "ro"
    THEN [err |-> "ESP_ERR_NVS_READ_ONLY", store |-> st]
    ELSE [err |-> "ESP_OK", store |-> EmptyStore]

\* NvsHandle::Commit: nvs_commit.
NvsCommit(h, lib) ==
    IF HandleValid(h, lib) THEN "ESP_OK" ELSE "ESP_ERR_NVS_INVALID_HANDLE"

\* NvsHandle::Close: whether nvs_close is called, and handle_ afterwards.
CloseCalls(h) == h # 0
CloseHandle(h) == h

\* The tags the callers of the model pass to GetInt and SetInt: two integer
\* types and the tags that are not integer types.
TypeTags == {"uint8", "int64", "string", "blob", "any"}

\* The keys the callers of the model store under: a string under either key,
\* every other type under one key.
SetKeys(t) == IF t = "string" THEN NvsKeys ELSE {"broker"}

\* History records: the last successful Set, and the last call on the store.
NoSet == [state |-> "none", key |-> "none", type |-> "none",
          num |-> Num(FALSE, ZeroMag), bytes |-> <<>>,
          committed |-> FALSE, restarted |-> FALSE]
\* A request to a handler of the configuration services: the failure before
\* its body is looked at ("ok" when there is none), whether the "type" of the
\* body is a string, the type, the key, the kind of the "value" and the value.
NoHttpReq == [pre |-> "none", typed |-> FALSE, type |-> "", key |-> "none",
              kind |-> "none", num |-> Num(FALSE, ZeroMag), text |-> <<>>]
NoCall == [op |-> "none", key |-> "none", tag |-> "none", err |-> "none",
           assigned |-> FALSE, type |-> "none", num |-> Num(FALSE, ZeroMag),
           bytes |-> <<>>, touched |-> FALSE, name |-> "", size |-> 0,
           terminated |-> FALSE, calls |-> <<>>, replies |-> <<>>,
           req |-> NoHttpReq]

(***************************************************************************)
(* Country codes.  app_main passes "CH"; the driver starts with the world   *)
(* safe mode "01" and rejects a code it does not know.                      *)
(***************************************************************************)
CountryCodes == {"CH", "XX"}
SupportedCountries == {"01", "CH"}
DefaultCountry == "01"

\* esp_wifi_set_country_code(country, true)
esp_wifi_set_country_code(c) ==
    IF c \in SupportedCountries THEN "ESP_OK" ELSE "ESP_ERR_INVALID_ARG"

(***************************************************************************)
(* Singletons: the threads that call S::GetInstance(), where S is any of    *)
(* App, Provisioner, MQTT, Updater, Httpd (the five share the code).        *)
(***************************************************************************)
\* Threads that call GetInstance() concurrently.
NumThreads == 2
Threads == 1..NumThreads

\* The static members of S once app_main has its App: the instance exists,
\* the mutex is free, no thread is inside GetInstance().
IdleThreads == [t \in Threads |-> "idle"]
NoReturns == [t \in Threads |-> 0]
SingletonsBuilt ==
    /\ gi_pc = IdleThreads
    /\ instance_ = 1
    /\ semaphore_ = 0
    /\ constructed = 1
    /\ gi_ret = NoReturns

\* MQTT::Init not called yet in this boot.
NoMqttCfg == [ret |-> "none", missing |-> "none", found |-> {},
              credentials |-> FALSE]

\* History record of a download request.
NoRequest == [made |-> FALSE, registered |-> <<>>, trace |-> <<>>]

(***************************************************************************)
(* Restart of the device (esp_restart, or a crash): every object is        *)
(* constructed anew; the stored credentials, the NVS and the OTA data      *)
(* survive.  The bootloader falls back to the other partition when the     *)
(* running image was still pending verification.                           *)
(***************************************************************************)
BootRunning(r, st) ==
    IF st[r] = "ESP_OTA_IMG_PENDING_VERIFY" THEN 1 - r ELSE r
BootOtaState(r, st) ==
    IF st[r] = "ESP_OTA_IMG_PENDING_VERIFY"
    THEN [st EXCEPT ![r] = "ESP_OTA_IMG_ABORTED"]
    ELSE st

VolatileReset ==
    /\ pc' = "App_Provision"
    /\ retries_' \in UninitInts
    /\ wifi_event_group_' = FALSE
    /\ prov_state' = "Idle"
    /\ wifi' = "off"
    /\ lastEvent' = "none"
    /\ failStreak' = 0
    /\ gotIpSinceCall' = FALSE
    /\ client_' = "uninit"
    /\ connected_' = FALSE
    /\ fatal_error_' = FALSE
    /\ subscriptions_' = <<>>
    /\ lastReplay' = <<>>
    /\ lastSubFailed' = <<>>
    /\ connects' = 0
    /\ errorSeen' = FALSE
    /\ lastMqttEvent' = "none"
    /\ lastPublish' = NoPublish
    /\ httpd_started' = FALSE
    /\ updateRet' = "none"
    /\ nvs_lib' = "none"
    /\ handle_' = 0
    /\ releases' = 0
    /\ lastCall' = NoCall
    /\ lastSet' = IF lastSet.state = "set"
                  THEN [lastSet EXCEPT !.restarted = TRUE]
                  ELSE lastSet
    /\ UNCHANGED <<nvs_store, nvs_ns, erased>>
    /\ country_code' = DefaultCountry
    /\ provPath' = "none"
    /\ wpc' = "none"
    /\ prev_btn_state' = 1
    /\ held' = 0
    /\ resetCalls' = 0
    /\ gi_pc' = IdleThreads
    /\ instance_' = 1
    /\ semaphore_' = 0
    /\ constructed' = 1
    /\ gi_ret' = NoReturns
    /\ headers_' = <<>>
    /\ configReads' = {"hostname"}
    /\ mqtt_cfg' = NoMqttCfg

esp_restart ==
    /\ VolatileReset
    /\ running' = BootRunning(running, ota_state)
    /\ ota_state' = BootOtaState(running, ota_state)

(***************************************************************************)
(* Library calls of the provisioning manager, as used by the handlers.     *)
(***************************************************************************)
\* wifi_prov_mgr_reset_sm_state_on_failure(): clears the stored credentials
\* and puts the manager back into the state in which it awaits credentials.
wifi_prov_mgr_reset_sm_state_on_failure ==
    /\ provisioned' = FALSE
    /\ prov_state' = "AwaitingCredentials"

\* retries_ after a credential failure, and whether the ceiling was reached.
CredFailCeiling_OffByOne(r) == (r + 1) > kMaxRetriesCount
CredFailCeiling(r) == (r + 1) >= kMaxRetriesCount
CredFailRetries(r) == IF CredFailCeiling(r) THEN 0 ELSE r + 1

\* retries_ after a credential success.
CredSuccessRetries_Kept(r) == r
CredSuccessRetries(r) == 0

(***************************************************************************)
(* Boot.  app_main: App::GetInstance() constructs the App, which constructs *)
(* the Httpd, MQTT, Updater and Provisioner singletons; App::Init.          *)
(***************************************************************************)
InitRest ==
    /\ pc = "App_Provision"
    /\ retries_ \in UninitInts
    /\ wifi_event_group_ = FALSE
    /\ prov_state = "Idle"
    /\ wifi = "off"
    /\ provisioned \in BOOLEAN
    /\ lastEvent = "none"
    /\ failStreak = 0
    /\ gotIpSinceCall = FALSE
    /\ nvs_mqtt \in BOOLEAN
    /\ client_ = "uninit"
    /\ connected_ = FALSE
    /\ fatal_error_ = FALSE
    /\ subscriptions_ = <<>>
    /\ lastReplay = <<>>
    /\ lastSubFailed = <<>>
    /\ connects = 0
    /\ errorSeen = FALSE
    /\ lastMqttEvent = "none"
    /\ lastPublish = NoPublish
    /\ httpd_started = FALSE
    /\ running = 0
    /\ \E s0 \in {"ESP_OTA_IMG_VALID", NoOtaData} :
          ota_state = [i \in 0..1 |-> IF i = 0 THEN s0
                                                ELSE "ESP_OTA_IMG_UNDEFINED"]
    /\ otaResult = "none"
    /\ updateRet = "none"
    /\ nvs_store = IF nvs_mqtt
                   THEN [k \in NvsKeys |->
                            Entry("string", Num(FALSE, ZeroMag), <<109, 113>>)]
                   ELSE EmptyStore
    /\ nvs_ns = nvs_mqtt
    /\ nvs_lib = "none"
    /\ handle_ = 0
    /\ releases = 0
    /\ lastSet = NoSet
    /\ erased = {}
    /\ lastCall = NoCall
    /\ country \in CountryCodes
    /\ country_code = DefaultCountry
    /\ provPath = "none"
    /\ wpc = "none"
    /\ prev_btn_state = 1
    /\ held = 0
    /\ resetCalls = 0
    /\ headers_ = <<>>
    /\ lastRequest = NoRequest
    /\ upgradeReplies = <<>>
    /\ configReads = {"hostname"}
    /\ mqtt_cfg = NoMqttCfg

Init == InitRest /\ SingletonsBuilt

(***************************************************************************)
(* Provisioner::Provision up to the wait.                                  *)
(***************************************************************************)
\* esp_wifi_set_country_code(country, true): a failure is logged and
\* Provision goes on.
CountryAfter(c, cur) ==
    IF esp_wifi_set_country_code(c) = "ESP_OK" THEN c ELSE cur

\* Whether Provision starts the station itself (IsProvisioned()).
TakesStaPath_Never(p) == FALSE
TakesStaPath(p) == p

\* App::Provision: the ReprovionerTask is created, then Provisioner::Provision
\* runs up to the wait.
Provision ==
    /\ pc = "App_Provision"
    /\ wpc' = "poll"
    /\ country_code' = CountryAfter(country, country_code)
    /\ provPath' = IF TakesStaPath(provisioned) THEN "InitSTA"
                                               ELSE "start_provisioning"
    /\ IF TakesStaPath(provisioned)
       THEN \* IsProvisioned(): wifi_prov_mgr_deinit(); InitSTA()
            /\ prov_state' = "Deinit"
            /\ wifi' = "started"
            /\ UNCHANGED retries_
       ELSE \* retries_ = 0; wifi_prov_mgr_start_provisioning(...)
            /\ retries_' = 0
            /\ prov_state' = "AwaitingCredentials"
            /\ wifi' = "started"
    /\ failStreak' = 0
    /\ gotIpSinceCall' = FALSE
    /\ pc' = "WaitBits"
    /\ otaResult' = "none"
    /\ lastRequest' = NoRequest
    /\ upgradeReplies' = <<>>
    /\ UNCHANGED <<wifi_event_group_, provisioned, lastEvent, mqttVars,
                   httpd_started, running, ota_state, updateRet>>
    /\ UNCHANGED <<nvsVars, country, prev_btn_state, held, resetCalls,
                   singleVars, headers_, configReads, mqtt_cfg>>

\* xEventGroupWaitBits(wifi_event_group_, kWifiConnectedEvent, true, true,
\* portMAX_DELAY): returns at once (clearing the bit) if the bit is set,
\* otherwise the task blocks.
WaitReturnsAtOnce_NoWait(bit) == TRUE
WaitReturnsAtOnce(bit) == bit

ProvisionWait ==
    /\ pc = "WaitBits"
    /\ IF WaitReturnsAtOnce(wifi_event_group_)
       THEN /\ wifi_event_group_' = FALSE
            /\ pc' = "Provision_return"
       ELSE /\ pc' = "blocked"
            /\ UNCHANGED wifi_event_group_
    /\ UNCHANGED <<retries_, prov_state, wifi, provisioned, lastEvent,
                   failStreak, gotIpSinceCall, mqttVars, updVars>>
    /\ UNCHANGED <<nvsVars, extVars>>

(***************************************************************************)
(* Provisioner::EventHandler, one action per event.                        *)
(***************************************************************************)
OnProvCredRecv ==
    /\ prov_state = "AwaitingCredentials"
    /\ prov_state' = "Connecting"
    /\ provisioned' = TRUE
    /\ wifi' = IF wifi = "off" THEN "off" ELSE "connecting"
    /\ lastEvent' = "WIFI_PROV_CRED_RECV"
    /\ UNCHANGED <<pc, retries_, wifi_event_group_, failStreak, gotIpSinceCall,
                   mqttVars, updVars>>
    /\ UNCHANGED <<nvsVars, extVars>>

OnProvCredFail ==
    /\ prov_state \in {"Connecting", "CredentialFailure"}
    /\ wifi = "connecting"
    /\ retries_' = CredFailRetries(retries_)
    /\ IF CredFailCeiling(retries_)
       THEN wifi_prov_mgr_reset_sm_state_on_failure
       ELSE /\ prov_state' = "CredentialFailure"
            /\ UNCHANGED provisioned
    /\ failStreak' = IF failStreak >= kMaxRetriesCount THEN 1 ELSE failStreak + 1
    /\ lastEvent' = "WIFI_PROV_CRED_FAIL"
    /\ UNCHANGED <<pc, wifi_event_group_, wifi, gotIpSinceCall, mqttVars, updVars>>
    /\ UNCHANGED <<nvsVars, extVars>>

OnProvCredSuccess ==
    /\ prov_state \in {"Connecting", "CredentialFailure"}
    /\ wifi = "got_ip"
    /\ retries_' = CredSuccessRetries(retries_)
    /\ prov_state' = "Connected"
    /\ lastEvent' = "WIFI_PROV_CRED_SUCCESS"
    /\ UNCHANGED <<pc, wifi_event_group_, wifi, provisioned, failStreak, gotIpSinceCall,
                   mqttVars, updVars>>
    /\ UNCHANGED <<nvsVars, extVars>>

OnProvEnd ==
    /\ prov_state = "Connected"
    /\ prov_state' = "Deinit"
    /\ lastEvent' = "WIFI_PROV_END"
    /\ UNCHANGED <<pc, retries_, wifi_event_group_, wifi, provisioned,
                   failStreak, gotIpSinceCall, mqttVars, updVars>>
    /\ UNCHANGED <<nvsVars, extVars>>

OnStaStart ==
    /\ wifi = "started"
    /\ wifi' = "connecting"
    /\ lastEvent' = "WIFI_EVENT_STA_START"
    /\ UNCHANGED <<pc, retries_, wifi_event_group_, prov_state, provisioned,
                   failStreak, gotIpSinceCall, mqttVars, updVars>>
    /\ UNCHANGED <<nvsVars, extVars>>

\* WIFI_EVENT_STA_DISCONNECTED: whether the handler calls esp_wifi_connect(),
\* given retries_ and the state of the provisioning.
DisconnectReconnects_Limited(r, ps) == r = 0
DisconnectReconnects(r, ps) == TRUE

OnStaDisconnected ==
    /\ wifi \in {"connecting", "got_ip"}
    /\ wifi' = IF DisconnectReconnects(retries_, prov_state)
               THEN "connecting" ELSE "disconnected"
    /\ lastEvent' = "WIFI_EVENT_STA_DISCONNECTED"
    /\ UNCHANGED <<pc, retries_, wifi_event_group_, prov_state, provisioned,
                   failStreak, gotIpSinceCall, mqttVars, updVars>>
    /\ UNCHANGED <<nvsVars, extVars>>

\* xEventGroupSetBits(wifi_event_group_, kWifiConnectedEvent): a task blocked
\* on the bit is made ready (and the bit cleared on its behalf) by the call.
SetBitsUnblocks(p) == p = "blocked"

OnGotIp ==
    /\ wifi = "connecting"
    /\ provisioned
    /\ wifi' = "got_ip"
    /\ IF SetBitsUnblocks(pc)
       THEN /\ pc' = "Provision_return"
            /\ wifi_event_group_' = FALSE
       ELSE /\ wifi_event_group_' = TRUE
            /\ UNCHANGED pc
    /\ gotIpSinceCall' = TRUE
    /\ lastEvent' = "IP_EVENT_STA_GOT_IP"
    /\ UNCHANGED <<retries_, prov_state, provisioned, failStreak, mqttVars, updVars>>
    /\ UNCHANGED <<nvsVars, extVars>>

(***************************************************************************)
(* app_main after App::Provision returned.                                 *)
(***************************************************************************)
\* App::Provision tail, AddRoute, StartMdns, StartHttpd.  From here on the
\* HTTP server may deliver requests to the route handlers.
StartHttpd_SkipVerify ==
    /\ pc = "Provision_return"
    /\ httpd_started' = TRUE
    /\ pc' = "InitMQTT"
    /\ UNCHANGED <<provVars, mqttVars, running, ota_state, otaResult, updateRet>>
    /\ UNCHANGED <<nvsVars, extVars>>

StartHttpd ==
    /\ pc = "Provision_return"
    /\ httpd_started' = TRUE
    /\ pc' = "PendingVerification"
    /\ UNCHANGED <<provVars, mqttVars, running, ota_state, otaResult, updateRet>>
    /\ UNCHANGED <<nvsVars, extVars>>

\* esp_ota_get_state_partition(running, &ota_state): fails when the OTA data
\* has no entry for the partition and then leaves ota_state unassigned.
esp_ota_get_state_partition(r, st) ==
    IF st[r] = NoOtaData
    THEN [res |-> "ESP_ERR_NOT_FOUND", ota_state |-> "unassigned"]
    ELSE [res |-> "ESP_OK", ota_state |-> st[r]]

\* Updater::PendingVerification
PendingVerification_OnError(r, st) ==
    LET got == esp_ota_get_state_partition(r, st)
    IN  IF got.res # "ESP_OK"
        THEN TRUE
        ELSE got.ota_state = "ESP_OTA_IMG_PENDING_VERIFY"
PendingVerification(r, st) ==
    LET got == esp_ota_get_state_partition(r, st)
    IN  IF got.res # "ESP_OK"
        THEN FALSE
        ELSE got.ota_state = "ESP_OTA_IMG_PENDING_VERIFY"

\* The diagnostic of app_main, and the set of values it can take.
diagnostic_is_ok == TRUE
DiagnosticOutcomes == {diagnostic_is_ok}

\* Updater::Commit: esp_ota_mark_app_valid_cancel_rollback()
Commit_Noop(r, st) == st
Commit(r, st) == [st EXCEPT ![r] = "ESP_OTA_IMG_VALID"]

VerifyUpdate ==
    /\ pc = "PendingVerification"
    /\ IF PendingVerification(running, ota_state)
       THEN IF diagnostic_is_ok
            THEN /\ ota_state' = Commit(running, ota_state)
                 /\ pc' = "InitMQTT"
                 /\ UNCHANGED <<provVars, mqttVars, httpd_started, running,
                                otaResult, updateRet, nvsVars, extVars>>
            ELSE \* Updater::Rollback: esp_ota_mark_app_invalid_rollback_and_reboot()
                 /\ esp_restart
                 /\ UNCHANGED <<provisioned, nvs_mqtt, otaResult, keptVars>>
       ELSE /\ pc' = "InitMQTT"
            /\ UNCHANGED <<provVars, mqttVars, updVars, nvsVars, extVars>>

(***************************************************************************)
(* MQTT client.                                                            *)
(***************************************************************************)
\* The optional entries of the mqtt namespace.
MqttCredentialKeys == {"username", "password"}

\* MQTT::Init on the mqtt namespace st, where found are the optional entries
\* that can be read and clientOk tells whether esp_mqtt_client_init and
\* esp_mqtt_client_register_event succeed: the reads in program order.
MqttInit_BrokerOnly(st, found, clientOk) ==
    IF st["broker"].type # "string"
    THEN [NoMqttCfg EXCEPT !.ret = "ESP_FAIL", !.missing = "broker"]
    ELSE IF ~clientOk
    THEN [NoMqttCfg EXCEPT !.ret = "ESP_FAIL", !.missing = "client",
                           !.found = found]
    ELSE [NoMqttCfg EXCEPT !.ret = "ESP_OK", !.found = found,
                           !.credentials = (found = MqttCredentialKeys)]
MqttInit(st, found, clientOk) ==
    IF st["broker"].type # "string"
    THEN [NoMqttCfg EXCEPT !.ret = "ESP_FAIL", !.missing = "broker"]
    ELSE IF st["topic-base"].type # "string"
    THEN [NoMqttCfg EXCEPT !.ret = "ESP_FAIL", !.missing = "topic-base",
                           !.found = found]
    ELSE IF ~clientOk
    THEN [NoMqttCfg EXCEPT !.ret = "ESP_FAIL", !.missing = "client",
                           !.found = found]
    ELSE [NoMqttCfg EXCEPT !.ret = "ESP_OK", !.found = found,
                           !.credentials = (found = MqttCredentialKeys)]

\* app->InitMQTT() of app_main: MQTT::Init, and the test of its result.
InitMQTT ==
    /\ pc = "InitMQTT"
    /\ \E ok \in BOOLEAN, found \in SUBSET MqttCredentialKeys :
          LET out == MqttInit(nvs_store, found, ok)
          IN  /\ mqtt_cfg' = out
              /\ IF out.ret = "ESP_OK"
                 THEN /\ client_' = "inited"
                      /\ pc' = "AddSubscription"
                 ELSE /\ pc' = "loop"
                      /\ UNCHANGED client_
    /\ configReads' = configReads \cup {"broker"}
    /\ UNCHANGED <<provVars, nvs_mqtt, connected_, fatal_error_, subscriptions_,
                   lastReplay, lastSubFailed, connects, errorSeen, lastMqttEvent,
                   lastPublish, updVars>>
    /\ UNCHANGED <<nvsVars, provInVars, watchVars, singleVars, hdrVars,
                   upgradeReplies>>

\* MQTT::AddSubscription
AddSubscription ==
    /\ pc = "AddSubscription"
    /\ Len(subscriptions_) < MaxSubs
    /\ \E s \in Subs : subscriptions_' = Append(subscriptions_, s)
    /\ UNCHANGED <<pc, provVars, nvs_mqtt, client_, connected_, fatal_error_,
                   lastReplay, lastSubFailed, connects, errorSeen, lastMqttEvent,
                   lastPublish, updVars>>
    /\ UNCHANGED <<nvsVars, extVars>>

\* MQTT::Start; app_main ignores the result.
StartMQTT ==
    /\ pc = "AddSubscription"
    /\ \E ok \in BOOLEAN : client_' = IF ok THEN "started" ELSE "inited"
    /\ pc' = "loop"
    /\ UNCHANGED <<provVars, nvs_mqtt, connected_, fatal_error_, subscriptions_,
                   lastReplay, lastSubFailed, connects, errorSeen, lastMqttEvent,
                   lastPublish, updVars>>
    /\ UNCHANGED <<nvsVars, extVars>>

\* Return values of esp_mqtt_client_publish: a message id, or -1.
TransportRets == {"msg_id", "-1"}

\* MQTT::Publish: whether the message is handed to esp_mqtt_client_publish,
\* and what Publish returns, given the value tr the transport returns.
PublishHands(conn) == TRUE
PublishRet(conn, tr) == tr

\* App::PublishMessage, called from the loop of app_main.
PublishMessage ==
    /\ pc = "loop"
    /\ client_ # "uninit"
    /\ \E tr \in TransportRets :
          lastPublish' = [called |-> TRUE,
                          connected |-> connected_,
                          replayed |-> connects > 0,
                          handed |-> PublishHands(connected_),
                          ret |-> PublishRet(connected_, tr)]
    /\ UNCHANGED <<pc, provVars, nvs_mqtt, client_, connected_, fatal_error_,
                   subscriptions_, lastReplay, lastSubFailed, connects, errorSeen,
                   lastMqttEvent, updVars>>
    /\ UNCHANGED <<nvsVars, extVars>>

\* App::PublishMessage after a failed MQTT::Init: client_ was never assigned
\* a client.  The transport rejects a null handle; any other value crashes.
PublishUninit ==
    /\ pc = "loop"
    /\ client_ = "uninit"
    /\ \/ /\ lastPublish' = [called |-> TRUE,
                             connected |-> connected_,
                             replayed |-> connects > 0,
                             handed |-> FALSE,
                             ret |-> "-1"]
          /\ UNCHANGED <<pc, provVars, nvs_mqtt, client_, connected_,
                         fatal_error_, subscriptions_, lastReplay, lastSubFailed,
                         connects, errorSeen, lastMqttEvent, updVars, nvsVars, extVars>>
       \/ /\ esp_restart
          /\ UNCHANGED <<provisioned, nvs_mqtt, otaResult, keptVars>>

\* MQTT::EventHandlerForwarder
Dispatches(fatal) == ~fatal

\* The switch of MQTT::EventHandler on the event id: the value of connected_
\* after the event.
ConnectedAfter_ErrorClears(event_id, conn) ==
    CASE event_id = "MQTT_EVENT_CONNECTED" -> TRUE
      [] event_id \in {"MQTT_EVENT_DISCONNECTED", "MQTT_EVENT_ERROR"} -> FALSE
      [] OTHER -> conn
ConnectedAfter(event_id, conn) ==
    CASE event_id = "MQTT_EVENT_CONNECTED" -> TRUE
      [] event_id = "MQTT_EVENT_DISCONNECTED" -> FALSE
      [] OTHER -> conn

\* The subscribe calls of MQTT_EVENT_CONNECTED: one per element of subs from
\* position i on; fails[j] tells whether the j-th call fails.
RECURSIVE ReplayFrom_StopOnFailure(_, _, _)
ReplayFrom_StopOnFailure(subs, fails, i) ==
    IF i > Len(subs) THEN <<>>
    ELSE IF fails[i] THEN <<subs[i]>>
    ELSE <<subs[i]>> \o ReplayFrom_StopOnFailure(subs, fails, i + 1)

RECURSIVE ReplayFrom(_, _, _)
ReplayFrom(subs, fails, i) ==
    IF i > Len(subs) THEN <<>>
    ELSE <<subs[i]>> \o ReplayFrom(subs, fails, i + 1)

OnMqttConnected ==
    /\ client_ = "started"
    /\ Dispatches(fatal_error_)
    /\ wifi = "got_ip"
    /\ ~connected_
    /\ connects < MaxConnects
    /\ connected_' = ConnectedAfter("MQTT_EVENT_CONNECTED", connected_)
    /\ \E fails \in [1..Len(subscriptions_) -> BOOLEAN] :
          /\ lastReplay' = ReplayFrom(subscriptions_, fails, 1)
          /\ lastSubFailed' = fails
    /\ connects' = connects + 1
    /\ lastMqttEvent' = "MQTT_EVENT_CONNECTED"
    /\ UNCHANGED <<pc, provVars, nvs_mqtt, client_, fatal_error_, subscriptions_,
                   errorSeen, lastPublish, updVars>>
    /\ UNCHANGED <<nvsVars, extVars>>

\* MQTT::AddSubscription: whether the call issues a subscribe call itself,
\* given connected_.
LateAddSubscribes_WhenConnected(conn) == conn
LateAddSubscribes(conn) == FALSE

\* MQTT::AddSubscription called by a task of the application after
\* MQTT::Start().
AddSubscriptionLate ==
    /\ pc = "loop"
    /\ client_ = "started"
    /\ Len(subscriptions_) < MaxSubs
    /\ \E s \in Subs :
          /\ subscriptions_' = Append(subscriptions_, s)
          /\ lastReplay' = IF LateAddSubscribes(connected_)
                            THEN Append(lastReplay, s) ELSE lastReplay
    /\ UNCHANGED <<pc, provVars, nvs_mqtt, client_, connected_, fatal_error_,
                   lastSubFailed, connects, errorSeen, lastMqttEvent,
                   lastPublish, updVars>>
    /\ UNCHANGED <<nvsVars, extVars>>

\* The same call while the MQTT task runs the loop of MQTT_EVENT_CONNECTED
\* over subscriptions_: the vector is not protected, the push_back and the
\* loop race.  The loop sees the vector without or with the new element, or
\* follows an iterator into storage that push_back released.
RaceOutcomes == {"loop_first", "push_back_first", "crash"}

AddSubscriptionRace ==
    /\ pc = "loop"
    /\ client_ = "started"
    /\ Dispatches(fatal_error_)
    /\ wifi = "got_ip"
    /\ ~connected_
    /\ connects < MaxConnects
    /\ Len(subscriptions_) < MaxSubs
    /\ \E s \in Subs, o \in RaceOutcomes :
          IF o = "crash"
          THEN /\ esp_restart
               /\ UNCHANGED <<provisioned, nvs_mqtt, otaResult, keptVars>>
          ELSE LET seen == IF o = "loop_first" THEN subscriptions_
                           ELSE Append(subscriptions_, s)
               IN  /\ subscriptions_' = Append(subscriptions_, s)
                   /\ connected_' = ConnectedAfter("MQTT_EVENT_CONNECTED",
                                                    connected_)
                   /\ \E fails \in [1..Len(seen) -> BOOLEAN] :
                         /\ lastReplay' = ReplayFrom(seen, fails, 1)
                         /\ lastSubFailed' = fails
                   /\ connects' = connects + 1
                   /\ lastMqttEvent' = "MQTT_EVENT_CONNECTED"
                   /\ UNCHANGED <<pc, provVars, nvs_mqtt, client_, fatal_error_,
                                  errorSeen, lastPublish, updVars>>
                   /\ UNCHANGED <<nvsVars, extVars>>

OnMqttDisconnected ==
    /\ client_ = "started"
    /\ Dispatches(fatal_error_)
    /\ connected_' = ConnectedAfter("MQTT_EVENT_DISCONNECTED", connected_)
    /\ lastMqttEvent' = "MQTT_EVENT_DISCONNECTED"
    /\ UNCHANGED <<pc, provVars, nvs_mqtt, client_, fatal_error_, subscriptions_,
                   lastReplay, lastSubFailed, connects, errorSeen, lastPublish,
                   updVars>>
    /\ UNCHANGED <<nvsVars, extVars>>

OnMqttData ==
    /\ client_ = "started"
    /\ Dispatches(fatal_error_)
    /\ connected_
    /\ lastMqttEvent' = "MQTT_EVENT_DATA"
    /\ connected_' = ConnectedAfter("MQTT_EVENT_DATA", connected_)
    /\ UNCHANGED <<pc, provVars, nvs_mqtt, client_, fatal_error_,
                   subscriptions_, lastReplay, lastSubFailed, connects, errorSeen,
                   lastPublish, updVars>>
    /\ UNCHANGED <<nvsVars, extVars>>

OnMqttPublished ==
    /\ client_ = "started"
    /\ Dispatches(fatal_error_)
    /\ connected_
    /\ lastPublish.called
    /\ lastMqttEvent' = "MQTT_EVENT_PUBLISHED"
    /\ connected_' = ConnectedAfter("MQTT_EVENT_PUBLISHED", connected_)
    /\ UNCHANGED <<pc, provVars, nvs_mqtt, client_, fatal_error_,
                   subscriptions_, lastReplay, lastSubFailed, connects, errorSeen,
                   lastPublish, updVars>>
    /\ UNCHANGED <<nvsVars, extVars>>

\* MQTT_EVENT_ERROR: the handler logs the error.
ErrorPoisons == FALSE

OnMqttError ==
    /\ client_ = "started"
    /\ Dispatches(fatal_error_)
    /\ fatal_error_' = (fatal_error_ \/ ErrorPoisons)
    /\ errorSeen' = TRUE
    /\ lastMqttEvent' = "MQTT_EVENT_ERROR"
    /\ connected_' = ConnectedAfter("MQTT_EVENT_ERROR", connected_)
    /\ UNCHANGED <<pc, provVars, nvs_mqtt, client_, subscriptions_,
                   lastReplay, lastSubFailed, connects, lastPublish, updVars>>
    /\ UNCHANGED <<nvsVars, extVars>>

(***************************************************************************)
(* Updater and the HTTP routes that restart the device.                    *)
(***************************************************************************)
\* Updater::Update after esp_https_ota returned res: whether esp_restart is
\* reached, and the value returned otherwise.
UpdateRestarts_Never(res) == FALSE
UpdateRestarts_Always(res) == TRUE
UpdateRestarts(res) == res = "ESP_OK"
UpdateReturn(res) == IF res # "ESP_OK" THEN "ESP_FAIL" ELSE "ESP_OK"

\* esp_https_ota: a successful download writes the other partition and makes
\* it the boot partition; it is refused while the running image is pending
\* verification.
Flashed(r, st) == [st EXCEPT ![1 - r] = "ESP_OTA_IMG_PENDING_VERIFY"]

\* Headers the callers of the model register: a bearer token, a second
\* bearer token and another header.
Headers == {<<"Authorization", "Bearer t1">>, <<"Authorization", "Bearer t2">>,
            <<"X-Device", "1">>}

\* Most headers registered per boot.
MaxHeaders == 2

\* The mark of esp_http_client_open in the trace of a request.
ConnectMark == <<"connect", "">>

\* HttpClientInitCallback: esp_http_client_set_header for every element of
\* headers_ in order, up to the first call that fails (failAt; 0: none).
HeadersSet(hs, failAt) ==
    IF failAt = 0 THEN hs ELSE SubSeq(hs, 1, failAt - 1)

\* esp_https_ota on the client: http_client_init_cb runs on the new client,
\* and only when it returned ESP_OK the connection is opened.
OtaTrace_ConnectFirst(hs, failAt) ==
    (IF failAt = 0 THEN <<ConnectMark>> ELSE <<>>) \o HeadersSet(hs, failAt)
OtaTrace(hs, failAt) ==
    HeadersSet(hs, failAt) \o (IF failAt = 0 THEN <<ConnectMark>> ELSE <<>>)

\* App::DoFirmwareUpgrade: the response sent before Updater::Update is
\* called, and the responses sent after it returned ret.
ReplyStarted == "200 Firmware update started"
ReplyFailed == "500 Failed to update firmware"
RepliesBefore == <<ReplyStarted>>
RepliesAfter(ret) == IF ret # "ESP_OK" THEN <<ReplyFailed>> ELSE <<>>

\* App::DoFirmwareUpgrade with a request that names a url: the reply, then
\* Updater::Update.
Update ==
    /\ httpd_started
    /\ \E res \in OtaResults, failAt \in 0..Len(headers_) :
          /\ res = "ESP_OK" => ~PendingVerification(running, ota_state)
          /\ failAt # 0 => res = "ESP_ERR_HTTP_CONNECT"
          /\ otaResult' = res
          /\ lastRequest' = [made |-> TRUE, registered |-> headers_,
                              trace |-> OtaTrace(headers_, failAt)]
          /\ IF UpdateRestarts(res)
             THEN /\ VolatileReset
                  /\ running' = 1 - running
                  /\ ota_state' = Flashed(running, ota_state)
                  /\ upgradeReplies' = RepliesBefore
                  /\ UNCHANGED <<provisioned, nvs_mqtt, country>>
             ELSE /\ updateRet' = UpdateReturn(res)
                  /\ ota_state' = IF res = "ESP_OK" THEN Flashed(running, ota_state)
                                                   ELSE ota_state
                  /\ upgradeReplies' = RepliesBefore \o RepliesAfter(UpdateReturn(res))
                  /\ UNCHANGED <<pc, provVars, mqttVars, httpd_started, running,
                                 nvsVars, provInVars, watchVars, singleVars,
                                 headers_, configReads, mqtt_cfg>>

\* App::DoFirmwareUpgrade with a request it rejects: the body cannot be
\* received or parsed (an error response), or it names no url (the handler
\* fails without a response).  Updater::Update is not called.
RejectReplies ==
    {<<"500 Failed to receive data">>, <<"500 Failed to receive all data">>,
     <<"500 Failed to parse JSON">>, <<>>}

DoFirmwareUpgradeRejected ==
    /\ httpd_started
    /\ \E r \in RejectReplies : upgradeReplies' = r
    /\ otaResult' = "none"
    /\ lastRequest' = NoRequest
    /\ UNCHANGED <<pc, provVars, mqttVars, httpd_started, running, ota_state,
                   updateRet, nvsVars, provInVars, watchVars, singleVars,
                   headers_, configReads, mqtt_cfg>>

\* Updater::AddHeader, Updater::AddBearerToken
AddHeader ==
    /\ Len(headers_) < MaxHeaders
    /\ \E h \in Headers : headers_' = Append(headers_, h)
    /\ UNCHANGED <<pc, provVars, mqttVars, updVars, nvsVars, provInVars,
                   watchVars, singleVars, lastRequest, upgradeReplies,
                   configReads, mqtt_cfg>>

\* App::DoReset
DoReset ==
    /\ httpd_started
    /\ esp_restart
    /\ UNCHANGED <<provisioned, nvs_mqtt, otaResult, keptVars>>

(***************************************************************************)
(* The configuration store: calls on an NvsHandle object.                  *)
(***************************************************************************)
\* NvsHandle::Open on an object that holds no open handle.  Opening read-only
\* fails while the namespace does not exist; opening read-write creates it.
Open ==
    /\ nvs_lib = "none"
    /\ \E mode \in {"ro", "rw"} :
          IF mode = "ro" /\ ~nvs_ns
          THEN /\ lastCall' = [NoCall EXCEPT !.op = "Open",
                                             !.err = "ESP_ERR_NVS_NOT_FOUND"]
               /\ UNCHANGED <<nvs_lib, handle_, nvs_ns, releases>>
          ELSE /\ nvs_lib' = mode
               /\ handle_' = 1
               /\ nvs_ns' = TRUE
               /\ releases' = 0
               /\ lastCall' = [NoCall EXCEPT !.op = "Open", !.err = "ESP_OK"]
    /\ UNCHANGED <<nvs_store, nvs_mqtt, lastSet, erased>>
    /\ UNCHANGED <<pc, provVars, mqttRest, updVars, extVars>>

\* NvsHandle::Close, called by the holder of an open handle.
Close ==
    /\ HandleValid(handle_, nvs_lib)
    /\ IF CloseCalls(handle_)
       THEN /\ nvs_lib' = "none"
            /\ releases' = releases + 1
       ELSE UNCHANGED <<nvs_lib, releases>>
    /\ handle_' = CloseHandle(handle_)
    /\ lastCall' = [NoCall EXCEPT !.op = "Close"]
    /\ UNCHANGED <<nvs_store, nvs_ns, nvs_mqtt, lastSet, erased>>
    /\ UNCHANGED <<pc, provVars, mqttRest, updVars, extVars>>

\* NvsHandle::~NvsHandle: Close(); the next object is constructed with
\* handle_ = 0.
Destroy ==
    /\ IF CloseCalls(handle_)
       THEN /\ nvs_lib' = "none"
            /\ releases' = releases + 1
       ELSE UNCHANGED <<nvs_lib, releases>>
    /\ handle_' = 0
    /\ lastCall' = [NoCall EXCEPT !.op = "~NvsHandle"]
    /\ UNCHANGED <<nvs_store, nvs_ns, nvs_mqtt, lastSet, erased>>
    /\ UNCHANGED <<pc, provVars, mqttRest, updVars, extVars>>

\* The store after a Set, Erase call with result out on key k.
Stored(out) ==
    /\ nvs_store' = out.store
    /\ nvs_mqtt' = MqttConfigured(out.store)
    /\ UNCHANGED <<nvs_ns, nvs_lib, handle_, releases>>
    /\ UNCHANGED <<pc, provVars, mqttRest, updVars, extVars>>

\* A caller stores the integer v of type t: SetInt(key, t, v).  The
\* parameter is a double, so v is converted to double at the call.
CallSetInt ==
    \E t \in NvsIntTypes \cup TypeTags :
      \E k \in SetKeys(t), v \in (IF t \in NvsIntTypes THEN IntInputs(t) ELSE {BigOdd}) :
        \E out \in SetInt(nvs_store, handle_, nvs_lib, k, t, ToDouble(v)) :
          /\ Stored(out)
          /\ lastCall' = [NoCall EXCEPT !.op = "SetInt", !.key = k, !.tag = t,
                                        !.err = out.err,
                                        !.touched = (out.store # nvs_store)]
          /\ IF out.err = "ESP_OK"
             THEN /\ lastSet' = [NoSet EXCEPT !.state = "set", !.key = k,
                                              !.type = t, !.num = v]
                  /\ erased' = erased \ {k}
             ELSE UNCHANGED <<lastSet, erased>>

CallSetString ==
    \E k \in NvsKeys, b \in StringInputs :
        LET out == SetString(nvs_store, handle_, nvs_lib, k, b)
        IN  /\ Stored(out)
            /\ lastCall' = [NoCall EXCEPT !.op = "SetString", !.key = k,
                                          !.tag = "string", !.err = out.err,
                                          !.touched = (out.store # nvs_store)]
            /\ IF out.err = "ESP_OK"
               THEN /\ lastSet' = [NoSet EXCEPT !.state = "set", !.key = k,
                                                !.type = "string", !.bytes = b]
                    /\ erased' = erased \ {k}
               ELSE UNCHANGED <<lastSet, erased>>

CallSetBlob ==
    \E k \in SetKeys("blob"), b \in BlobInputs :
        LET out == SetBlob(nvs_store, handle_, nvs_lib, k, b)
        IN  /\ Stored(out)
            /\ lastCall' = [NoCall EXCEPT !.op = "SetBlob", !.key = k,
                                          !.tag = "blob", !.err = out.err,
                                          !.touched = (out.store # nvs_store)]
            /\ IF out.err = "ESP_OK"
               THEN /\ lastSet' = [NoSet EXCEPT !.state = "set", !.key = k,
                                                !.type = "blob", !.bytes = b]
                    /\ erased' = erased \ {k}
               ELSE UNCHANGED <<lastSet, erased>>

CallCommit ==
    /\ lastCall' = [NoCall EXCEPT !.op = "Commit",
                                  !.err = NvsCommit(handle_, nvs_lib)]
    /\ lastSet' = IF NvsCommit(handle_, nvs_lib) = "ESP_OK" /\ lastSet.state = "set"
                  THEN [lastSet EXCEPT !.committed = TRUE]
                  ELSE lastSet
    /\ UNCHANGED <<nvs_store, nvs_ns, nvs_lib, handle_, releases, nvs_mqtt, erased>>
    /\ UNCHANGED <<pc, provVars, mqttRest, updVars, extVars>>

\* A read leaves everything but the record of the call unchanged.
ReadOnly ==
    /\ UNCHANGED <<nvs_store, nvs_ns, nvs_lib, handle_, releases, nvs_mqtt,
                   lastSet, erased>>
    /\ UNCHANGED <<pc, provVars, mqttRest, updVars, extVars>>

\* Get(key): FindKey, then the getter of the type found (as JsonNode does).
CallGet ==
    /\ ReadOnly
    /\ \E k \in NvsKeys :
         LET f == FindKey(nvs_store, handle_, nvs_lib, k)
         IN  IF f.err # "ESP_OK"
             THEN lastCall' = [NoCall EXCEPT !.op = "Get", !.key = k, !.err = f.err]
             ELSE IF f.type \in NvsIntTypes
             THEN \E out \in GetInt(nvs_store, handle_, nvs_lib, k, f.type) :
                     lastCall' = [NoCall EXCEPT !.op = "Get", !.key = k,
                                     !.tag = f.type, !.err = out.err,
                                     !.assigned = out.assigned,
                                     !.type = f.type, !.num = out.num]
             ELSE \E out \in GetBytes(nvs_store, handle_, nvs_lib, k, f.type) :
                     lastCall' = [NoCall EXCEPT !.op = "Get", !.key = k,
                                     !.tag = f.type, !.err = out.err,
                                     !.assigned = out.assigned,
                                     !.type = f.type, !.bytes = out.bytes]

CallFindKey ==
    /\ ReadOnly
    /\ \E k \in NvsKeys :
         LET f == FindKey(nvs_store, handle_, nvs_lib, k)
         IN  lastCall' = [NoCall EXCEPT !.op = "FindKey", !.key = k,
                                       !.err = f.err, !.type = f.type]

CallGetInt ==
    /\ ReadOnly
    /\ \E k \in NvsKeys, t \in TypeTags :
         \E out \in GetInt(nvs_store, handle_, nvs_lib, k, t) :
            lastCall' = [NoCall EXCEPT !.op = "GetInt", !.key = k, !.tag = t,
                                      !.err = out.err, !.assigned = out.assigned,
                                      !.num = out.num]

CallGetString ==
    /\ ReadOnly
    /\ \E k \in NvsKeys :
         \E out \in GetString(nvs_store, handle_, nvs_lib, k) :
            lastCall' = [NoCall EXCEPT !.op = "GetString", !.key = k,
                                      !.tag = "string", !.err = out.err,
                                      !.assigned = out.assigned,
                                      !.bytes = out.bytes]

CallGetBlob ==
    /\ ReadOnly
    /\ \E k \in NvsKeys :
         \E out \in GetBlob(nvs_store, handle_, nvs_lib, k) :
            lastCall' = [NoCall EXCEPT !.op = "GetBlob", !.key = k,
                                      !.tag = "blob", !.err = out.err,
                                      !.assigned = out.assigned,
                                      !.bytes = out.bytes]

CallEraseKey ==
    \E k \in NvsKeys :
        LET out == EraseKey(nvs_store, handle_, nvs_lib, k)
        IN  /\ Stored(out)
            /\ lastCall' = [NoCall EXCEPT !.op = "EraseKey", !.key = k,
                                          !.err = out.err,
                                          !.touched = (out.store # nvs_store)]
            /\ IF out.err = "ESP_OK"
               THEN /\ erased' = erased \cup {k}
                    /\ lastSet' = IF lastSet.key = k THEN NoSet ELSE lastSet
               ELSE UNCHANGED <<lastSet, erased>>

CallEraseAll ==
    LET out == EraseAll(nvs_store, handle_, nvs_lib)
    IN  /\ Stored(out)
        /\ lastCall' = [NoCall EXCEPT !.op = "EraseAll", !.err = out.err,
                                      !.touched = (out.store # nvs_store)]
        /\ IF out.err = "ESP_OK"
           THEN /\ erased' = NvsKeys
                /\ lastSet' = NoSet
           ELSE UNCHANGED <<lastSet, erased>>

\* The device is restarted while the store is in use.
Restart ==
    /\ esp_restart
    /\ UNCHANGED <<provisioned, nvs_mqtt, otaResult, keptVars>>

(***************************************************************************)
(* ResetProvisioning and the ReprovionerTask.                              *)
(***************************************************************************)
\* Most wifi_prov_mgr_reset_provisioning calls counted per boot.
MaxResets == 2

\* wifi_prov_mgr_reset_provisioning(): esp_wifi_restore() discards the
\* stored credentials.
wifi_prov_mgr_reset_provisioning ==
    /\ provisioned' = FALSE
    /\ resetCalls' = resetCalls + 1

\* retries_ after ResetProvisioning.
ResetRetries_Cleared(r) == 0
ResetRetries(r) == r

\* Provisioner::ResetProvisioning / App::ResetProvisioning, called by a task
\* of the application at any moment.
ResetProvisioning ==
    /\ resetCalls < MaxResets
    /\ wifi_prov_mgr_reset_provisioning
    /\ retries_' = ResetRetries(retries_)
    /\ UNCHANGED <<pc, wifi_event_group_, prov_state, wifi, lastEvent,
                   failStreak, gotIpSinceCall, mqttVars, updVars, nvsVars>>
    /\ UNCHANGED <<provInVars, wpc, prev_btn_state, held, singleVars, hdrVars,
                   upgradeReplies, configReads, mqtt_cfg>>

\* The threshold of the hold and the period of the poll, in ms.
kHoldMs == 10000
kPollMs == 500

\* Time between two polls: vTaskDelay(pdMS_TO_TICKS(500)), or longer when
\* the task is held up.
PollDelays == {kPollMs, 2 * kPollMs}

\* (esp_timer_get_time() / 1000) - start_pressed > 10000
HoldExceeded_AtOnce(elapsed) == elapsed > 0
HoldExceeded(elapsed) == elapsed > kHoldMs

\* xTaskCreate(ReprovionerTaskForwarder, ...) of App::Provision: the watcher
\* is a task of its own and runs whatever the position p of app_main is.
WatcherRuns_AfterWait(p) == p \notin {"WaitBits", "blocked"}
WatcherRuns(p) == TRUE

\* One turn of the loop of App::ReprovionerTask: gpio_get_level, the test of
\* the hold, vTaskDelay.  btn = 0 is the pressed button.
WatcherPoll ==
    /\ wpc = "poll"
    /\ WatcherRuns(pc)
    /\ \E btn \in {0, 1}, d \in PollDelays :
          IF btn = 0
          THEN IF prev_btn_state = 1
               THEN \* start_pressed = now
                    /\ held' = 0
                    /\ prev_btn_state' = btn
                    /\ UNCHANGED wpc
               ELSE IF HoldExceeded(held + d)
               THEN \* led_->On(kOrange); vTaskDelay(2000)
                    /\ held' = held + d
                    /\ wpc' = "reset"
                    /\ UNCHANGED prev_btn_state
               ELSE /\ held' = held + d
                    /\ prev_btn_state' = btn
                    /\ UNCHANGED wpc
          ELSE /\ held' = 0
               /\ prev_btn_state' = btn
               /\ UNCHANGED wpc
    /\ UNCHANGED <<pc, provVars, mqttVars, updVars, nvsVars>>
    /\ UNCHANGED <<provInVars, resetCalls, singleVars, hdrVars, upgradeReplies,
                   configReads, mqtt_cfg>>

\* ResetProvisioning(); vTaskDelay(500)
WatcherReset ==
    /\ wpc = "reset"
    /\ wifi_prov_mgr_reset_provisioning
    /\ wpc' = "restart"
    /\ UNCHANGED <<pc, retries_, wifi_event_group_, prov_state, wifi, lastEvent,
                   failStreak, gotIpSinceCall, mqttVars, updVars, nvsVars>>
    /\ UNCHANGED <<provInVars, prev_btn_state, held, singleVars, hdrVars,
                   upgradeReplies, configReads, mqtt_cfg>>

\* esp_restart()
WatcherRestart ==
    /\ wpc = "restart"
    /\ esp_restart
    /\ UNCHANGED <<provisioned, nvs_mqtt, otaResult, keptVars>>

(***************************************************************************)
(* S::GetInstance(), one action per step of a calling thread.  instance_    *)
(* is read outside the mutex: a read that runs while another thread stores  *)
(* the pointer sees the old or the new value, which the interleaving of     *)
(* the steps below produces.                                                 *)
(***************************************************************************)
\* The static members of S before the first call of GetInstance().
SingletonsFresh ==
    /\ gi_pc = IdleThreads
    /\ instance_ = 0
    /\ semaphore_ = 0
    /\ constructed = 0
    /\ gi_ret = NoReturns

singleFrame ==
    UNCHANGED <<pc, provVars, mqttVars, updVars, nvsVars, provInVars,
                watchVars, hdrVars, upgradeReplies, configReads, mqtt_cfg>>

\* if (instance_ == nullptr), outside and inside the mutex
FirstCheck(inst) == inst = 0
SecondCheck_Skipped(inst) == TRUE
SecondCheck(inst) == inst = 0

\* A thread calls S::GetInstance().
GetInstanceCall(t) ==
    /\ gi_pc[t] = "idle"
    /\ gi_pc' = [gi_pc EXCEPT ![t] = "check1"]
    /\ gi_ret' = [gi_ret EXCEPT ![t] = 0]
    /\ UNCHANGED <<instance_, semaphore_, constructed>>
    /\ singleFrame

\* if (instance_ == nullptr) {
GetInstanceCheck1(t) ==
    /\ gi_pc[t] = "check1"
    /\ gi_pc' = [gi_pc EXCEPT ![t] = IF FirstCheck(instance_) THEN "take"
                                                               ELSE "return"]
    /\ UNCHANGED <<instance_, semaphore_, constructed, gi_ret>>
    /\ singleFrame

\* xSemaphoreTake(semaphore_, portMAX_DELAY)
GetInstanceTake(t) ==
    /\ gi_pc[t] = "take"
    /\ semaphore_ = 0
    /\ semaphore_' = t
    /\ gi_pc' = [gi_pc EXCEPT ![t] = "check2"]
    /\ UNCHANGED <<instance_, constructed, gi_ret>>
    /\ singleFrame

\* if (instance_ == nullptr) {
GetInstanceCheck2(t) ==
    /\ gi_pc[t] = "check2"
    /\ gi_pc' = [gi_pc EXCEPT ![t] = IF SecondCheck(instance_) THEN "new"
                                                                ELSE "give"]
    /\ UNCHANGED <<instance_, semaphore_, constructed, gi_ret>>
    /\ singleFrame

\* instance_ = new S()
GetInstanceNew(t) ==
    /\ gi_pc[t] = "new"
    /\ constructed' = constructed + 1
    /\ instance_' = constructed + 1
    /\ gi_pc' = [gi_pc EXCEPT ![t] = "give"]
    /\ UNCHANGED <<semaphore_, gi_ret>>
    /\ singleFrame

\* xSemaphoreGive(semaphore_)
GetInstanceGive(t) ==
    /\ gi_pc[t] = "give"
    /\ semaphore_' = 0
    /\ gi_pc' = [gi_pc EXCEPT ![t] = "return"]
    /\ UNCHANGED <<instance_, constructed, gi_ret>>
    /\ singleFrame

\* return instance_
GetInstanceReturn(t) ==
    /\ gi_pc[t] = "return"
    /\ gi_ret' = [gi_ret EXCEPT ![t] = instance_]
    /\ gi_pc' = [gi_pc EXCEPT ![t] = "idle"]
    /\ UNCHANGED <<instance_, semaphore_, constructed>>
    /\ singleFrame

GetInstance ==
    \E t \in Threads :
        \/ GetInstanceCall(t)
        \/ GetInstanceCheck1(t)
        \/ GetInstanceTake(t)
        \/ GetInstanceCheck2(t)
        \/ GetInstanceNew(t)
        \/ GetInstanceGive(t)
        \/ GetInstanceReturn(t)

(***************************************************************************)
(* NvsHandle::TypeOf and NvsHandle::TypeName: type strings and nvs_type_t.  *)
(***************************************************************************)
\* The strings a caller passes to TypeOf (the "type" of a request).
TypeStringInputs ==
    {"uint8", "int8", "uint16", "int16", "uint32", "int32", "uint64", "int64",
     "string", "blob", "any",
     "", "uint", "uint88", "UINT8", "Any", "float", "bool", "unknown"}

\* The values of nvs_type_t a caller passes to TypeName; the last three are
\* outside the enumeration.
TypeTagInputs ==
    {"NVS_TYPE_U8", "NVS_TYPE_I8", "NVS_TYPE_U16", "NVS_TYPE_I16",
     "NVS_TYPE_U32", "NVS_TYPE_I32", "NVS_TYPE_U64", "NVS_TYPE_I64",
     "NVS_TYPE_STR", "NVS_TYPE_BLOB", "NVS_TYPE_ANY",
     "0x00", "0x24", "0x41"}

\* sizeof(typeName) of JsonNode, and the smaller buffers a caller may pass.
kTypeNameSize == 16
NameSizes == {3, 4, 6, 7, 8, kTypeNameSize}

\* strncpy(name, src, size): the first size characters of src; the name is
\* terminated only when src is shorter than the buffer.
strncpy(src, size) ==
    [name |-> IF Len(src) <= size THEN src ELSE SubSeq(src, 1, size),
     terminated |-> Len(src) < size]

\* The string each case of the switch copies.
TypeNameOf(type) ==
    CASE type = "NVS_TYPE_U8" -> "uint8"
      [] type = "NVS_TYPE_I8" -> "int8"
      [] type = "NVS_TYPE_U16" -> "uint16"
      [] type = "NVS_TYPE_I16" -> "int16"
      [] type = "NVS_TYPE_U32" -> "uint32"
      [] type = "NVS_TYPE_I32" -> "int32"
      [] type = "NVS_TYPE_U64" -> "uint64"
      [] type = "NVS_TYPE_I64" -> "int64"
      [] type = "NVS_TYPE_STR" -> "string"
      [] type = "NVS_TYPE_BLOB" -> "blob"
      [] type = "NVS_TYPE_ANY" -> "any"
      [] OTHER -> "unknown"

\* NvsHandle::TypeName(type, name, size)
TypeName(type, size) ==
    LET src == TypeNameOf(type)
        out == strncpy(src, size)
    IN  [err |-> IF src = "unknown" THEN "ESP_ERR_NVS_TYPE_MISMATCH"
                                    ELSE "ESP_OK",
         name |-> out.name,
         terminated |-> out.terminated]

\* The tag of each branch of the strcmp chain.
TypeOfTag_Signed(type) ==
    CASE type = "uint8" -> "NVS_TYPE_I8"
      [] type = "int8" -> "NVS_TYPE_I8"
      [] type = "uint16" -> "NVS_TYPE_I16"
      [] type = "int16" -> "NVS_TYPE_I16"
      [] type = "uint32" -> "NVS_TYPE_I32"
      [] type = "int32" -> "NVS_TYPE_I32"
      [] type = "uint64" -> "NVS_TYPE_I64"
      [] type = "int64" -> "NVS_TYPE_I64"
      [] type = "string" -> "NVS_TYPE_STR"
      [] type = "blob" -> "NVS_TYPE_BLOB"
      [] type = "any" -> "NVS_TYPE_ANY"
      [] OTHER -> "none"
TypeOfTag(type) ==
    CASE type = "uint8" -> "NVS_TYPE_U8"
      [] type = "int8" -> "NVS_TYPE_I8"
      [] type = "uint16" -> "NVS_TYPE_U16"
      [] type = "int16" -> "NVS_TYPE_I16"
      [] type = "uint32" -> "NVS_TYPE_U32"
      [] type = "int32" -> "NVS_TYPE_I32"
      [] type = "uint64" -> "NVS_TYPE_U64"
      [] type = "int64" -> "NVS_TYPE_I64"
      [] type = "string" -> "NVS_TYPE_STR"
      [] type = "blob" -> "NVS_TYPE_BLOB"
      [] type = "any" -> "NVS_TYPE_ANY"
      [] OTHER -> "none"

\* NvsHandle::TypeOf(type, &nvs_type)
TypeOf(type) ==
    IF TypeOfTag(type) # "none"
    THEN [err |-> "ESP_OK", tag |-> TypeOfTag(type)]
    ELSE [err |-> "ESP_ERR_NVS_TYPE_MISMATCH", tag |-> "NVS_TYPE_ANY"]

CallTypeOf ==
    /\ ReadOnly
    /\ \E type \in TypeStringInputs :
          LET out == TypeOf(type)
          IN  lastCall' = [NoCall EXCEPT !.op = "TypeOf", !.name = type,
                                         !.tag = out.tag, !.err = out.err]

CallTypeName ==
    /\ ReadOnly
    /\ \E type \in TypeTagInputs, size \in NameSizes :
          LET out == TypeName(type, size)
          IN  lastCall' = [NoCall EXCEPT !.op = "TypeName", !.tag = type,
                                         !.size = size, !.name = out.name,
                                         !.terminated = out.terminated,
                                         !.err = out.err]

(***************************************************************************)
(* NvsHandle::Base64Encode and NvsHandle::Base64Decode: mbedtls_base64_*.   *)
(* Texts are sequences of character codes, blobs sequences of bytes.        *)
(***************************************************************************)
\* The character of a 6-bit value, and the value of a character (-1 for a
\* character outside the alphabet).
B64Char(v) ==
    IF v < 26 THEN 65 + v
    ELSE IF v < 52 THEN 97 + (v - 26)
    ELSE IF v < 62 THEN 48 + (v - 52)
    ELSE IF v = 62 THEN 43
    ELSE 47
B64Value(c) ==
    IF c >= 65 /\ c <= 90 THEN c - 65
    ELSE IF c >= 97 /\ c <= 122 THEN c - 97 + 26
    ELSE IF c >= 48 /\ c <= 57 THEN c - 48 + 52
    ELSE IF c = 43 THEN 62
    ELSE IF c = 47 THEN 63
    ELSE -1
\* The pad character '='.
IsPad(c) == c = 61
B64Pad == CHOOSE c \in 0..127 : IsPad(c)

\* The characters mbedtls_base64_encode writes for the bytes b.
RECURSIVE B64Text(_)
B64Text(b) ==
    IF Len(b) = 0 THEN <<>>
    ELSE IF Len(b) = 1
    THEN <<B64Char(b[1] \div 4), B64Char((b[1] % 4) * 16), B64Pad, B64Pad>>
    ELSE IF Len(b) = 2
    THEN <<B64Char(b[1] \div 4), B64Char((b[1] % 4) * 16 + b[2] \div 16),
           B64Char((b[2] % 16) * 4), B64Pad>>
    ELSE <<B64Char(b[1] \div 4), B64Char((b[1] % 4) * 16 + b[2] \div 16),
           B64Char((b[2] % 16) * 4 + b[3] \div 64), B64Char(b[3] % 64)>>
         \o B64Text(SubSeq(b, 4, Len(b)))

\* mbedtls_base64_encode(dst, dlen, &olen, src, slen).  With slen = 0 it
\* sets *olen = 0 and returns before it writes anything to dst, the
\* terminator included; otherwise it needs room for the text and the
\* terminator.
Base64Encode(dlen, b) ==
    LET n == 4 * ((Len(b) + 2) \div 3)
    IN  IF Len(b) = 0
        THEN [ret |-> "0", olen |-> 0, written |-> FALSE, text |-> <<>>]
        ELSE IF dlen < n + 1
        THEN [ret |-> "MBEDTLS_ERR_BASE64_BUFFER_TOO_SMALL", olen |-> n + 1,
              written |-> FALSE, text |-> <<>>]
        ELSE [ret |-> "0", olen |-> n, written |-> TRUE, text |-> B64Text(b)]

\* The first pass of mbedtls_base64_decode over a text without white space:
\* every character is of the alphabet or a pad, at most two pads, and no
\* character of the alphabet after a pad.
RECURSIVE B64Valid(_, _)
B64Valid(text, equals) ==
    IF Len(text) = 0 THEN TRUE
    ELSE IF IsPad(Head(text))
    THEN equals + 1 <= 2 /\ B64Valid(Tail(text), equals + 1)
    ELSE equals = 0 /\ B64Value(Head(text)) >= 0 /\ B64Valid(Tail(text), 0)
B64Pads(text) == Len(SelectSeq(text, LAMBDA c : IsPad(c)))

\* The second pass: each complete group of four characters yields three
\* bytes, less one for each pad in it; an incomplete last group yields none.
B64Group(g) ==
    LET v(i) == IF IsPad(g[i]) THEN 0 ELSE B64Value(g[i])
        three == <<v(1) * 4 + v(2) \div 16,
                   (v(2) % 16) * 16 + v(3) \div 4,
                   (v(3) % 4) * 64 + v(4)>>
    IN  SubSeq(three, 1, 3 - B64Pads(g))
RECURSIVE B64Bytes(_)
B64Bytes(text) ==
    IF Len(text) < 4 THEN <<>>
    ELSE B64Group(SubSeq(text, 1, 4)) \o B64Bytes(SubSeq(text, 5, Len(text)))

\* mbedtls_base64_decode(dst, dlen, &olen, src, slen)
Base64Decode_Lenient(dlen, text) ==
    LET n == Len(text)
        need == 6 * (n \div 8) + ((6 * (n % 8) + 7) \div 8) - B64Pads(text)
    IN  IF n = 0
        THEN [ret |-> "0", olen |-> 0, bytes |-> <<>>]
        ELSE IF dlen < need
        THEN [ret |-> "MBEDTLS_ERR_BASE64_BUFFER_TOO_SMALL", olen |-> need,
              bytes |-> <<>>]
        ELSE [ret |-> "0", olen |-> Len(B64Bytes(text)), bytes |-> B64Bytes(text)]
Base64Decode(dlen, text) ==
    LET n == Len(text)
        need == 6 * (n \div 8) + ((6 * (n % 8) + 7) \div 8) - B64Pads(text)
    IN  IF ~B64Valid(text, 0)
        THEN [ret |-> "MBEDTLS_ERR_BASE64_INVALID_CHARACTER", olen |-> 0,
              bytes |-> <<>>]
        ELSE IF n = 0
        THEN [ret |-> "0", olen |-> 0, bytes |-> <<>>]
        ELSE IF dlen < need
        THEN [ret |-> "MBEDTLS_ERR_BASE64_BUFFER_TOO_SMALL", olen |-> need,
              bytes |-> <<>>]
        ELSE [ret |-> "0", olen |-> Len(B64Bytes(text)), bytes |-> B64Bytes(text)]

(***************************************************************************)
(* The configuration web services: the handlers of the routes that set,    *)
(* get and delete entries of the namespace "mqtt".                          *)
(***************************************************************************)
\* httpd_->Reply / ReplyJson: a 200 response; httpd_->SendError with
\* HTTPD_500_INTERNAL_SERVER_ERROR: a 500 response with the message.
NoNode == [type |-> "", kind |-> "none", num |-> Num(FALSE, ZeroMag), text |-> <<>>]
Reply(text) == [status |-> 200, body |-> text, json |-> <<>>]
ReplyJson(nodes) == [status |-> 200, body |-> "json", json |-> nodes]
SendError(msg) == [status |-> 500, body |-> msg, json |-> <<>>]

\* What a handler did: the value it returned, the responses it sent, its
\* calls on the store in order, the store and the namespace afterwards, and
\* the Set it made.
Handled(ret, replies, calls, st, ns, set) ==
    [ret |-> ret, replies |-> replies, calls |-> calls, store |-> st,
     ns |-> ns, set |-> set]
Failed(msg, calls, st, ns) ==
    Handled("ESP_FAIL", <<SendError(msg)>>, calls, st, ns, NoSet)

\* The failures of a handler before it looks at the body of the request:
\* httpd_req_get_url_query_str, GetNameSpace, GetKey, and for set-key
\* Receive and cJSON_Parse.
QueryErrors ==
    {"Failed to get query string", "Failed to get namespace parameter",
     "Failed to get key parameter"}
BodyErrors ==
    {"Failed to receive data", "Failed to receive all data",
     "Failed to parse JSON"}

\* Failures of the storage library the environment may cause in a handler:
\* none, or the failure of its Open, Set, Commit, Erase or nvs_entry_find.
SetFaults == {"none", "open", "set", "commit"}
GetFaults == {"none", "open"}
ListFaults == {"none", "open", "entry_find"}
EraseFaults == {"none", "open", "erase"}

\* cJSON's valueint of a parsed number: the double, saturated to the range
\* of int.
ValueInt(d) ==
    IF InRange("int32", d) THEN d
    ELSE IF d.neg THEN MinOf("int32") ELSE MaxOf("int32")

\* What a char buffer that was allocated and never written reads as.
UninitTexts == {<<>>, <<B64Char(GarbageInt)>>}

\* A call of a handler on the store and its result.
Called(op, err) == <<op, err>>
OpenOk == Called("Open", "ESP_OK")

\* my_handle.Open(name_space, mode) of a handler: its result and the handle
\* of the library the handler holds afterwards.
HandlerOpen(ns, mode, fault) ==
    IF fault = "open" THEN [err |-> "ESP_ERR_NVS_NOT_ENOUGH_SPACE", lib |-> "none"]
    ELSE IF mode = "ro" /\ ~ns THEN [err |-> "ESP_ERR_NVS_NOT_FOUND", lib |-> "none"]
    ELSE [err |-> "ESP_OK", lib |-> mode]

\* JsonNode(json, req, ctx, handle, key, nvs_type): the node it adds, or the
\* error it sends.  t is the type of the entry as FindKey or the iterator
\* reported it.
JsonNode(st, lib, key, t) ==
    LET name == TypeName(TypeOfTag(t), kTypeNameSize)
        h == IF lib = "none" THEN 0 ELSE 1
    IN  IF name.err # "ESP_OK"
        THEN {[err |-> "Failed to get type", node |-> NoNode]}
        ELSE IF t \in NvsIntTypes
        THEN {IF out.err # "ESP_OK"
              THEN [err |-> "Failed to get integer value", node |-> NoNode]
              ELSE [err |-> "", node |-> [NoNode EXCEPT !.type = name.name,
                                             !.kind = "number", !.num = out.num]]
              : out \in GetInt(st, h, lib, key, t)}
        ELSE IF t = "string"
        THEN {IF out.err # "ESP_OK"
              THEN [err |-> "Failed to get string value", node |-> NoNode]
              ELSE [err |-> "", node |-> [NoNode EXCEPT !.type = name.name,
                                             !.kind = "string", !.text = out.bytes]]
              : out \in GetString(st, h, lib, key)}
        ELSE IF t = "blob"
        THEN UNION {
              IF out.err # "ESP_OK"
              THEN {[err |-> "Failed to get blob value", node |-> NoNode]}
              ELSE LET enc == Base64Encode(4 + Len(out.bytes) * 2, out.bytes)
                   IN  IF enc.ret # "0"
                       THEN {[err |-> "Failed to encode blob", node |-> NoNode]}
                       ELSE {[err |-> "", node |-> [NoNode EXCEPT !.type = name.name,
                                                       !.kind = "string", !.text = x]]
                             : x \in IF enc.written THEN {enc.text} ELSE UninitTexts}
              : out \in GetBlob(st, h, lib, key)}
        ELSE {[err |-> "Unknown type", node |-> NoNode]}

\* The Set of a set-key request, as lastSet records it.
SetOf(req, t, committed) ==
    [NoSet EXCEPT !.state = "set", !.key = req.key, !.type = t,
                  !.num = req.num, !.bytes = req.text, !.committed = committed]

\* The end of App::DoConfigSetKey after its Set returned out: Commit, Reply.
SetKeyCommit_Unchecked(req, t, setCall, out, fault) ==
    LET commit == IF fault = "commit" THEN "ESP_ERR_NVS_NOT_ENOUGH_SPACE"
                                      ELSE NvsCommit(1, "rw")
    IN  IF out.err # "ESP_OK"
        THEN Failed(IF setCall = "SetInt" THEN "Failed to set integer value"
                    ELSE "Failed to set string value",
                    <<OpenOk, Called(setCall, out.err)>>, out.store, TRUE)
        ELSE Handled("ESP_OK", <<Reply("Configuration set\n")>>,
                     <<OpenOk, Called(setCall, out.err), Called("Commit", commit)>>,
                     out.store, TRUE, SetOf(req, t, commit = "ESP_OK"))
SetKeyCommit(req, t, setCall, out, fault) ==
    LET commit == IF fault = "commit" THEN "ESP_ERR_NVS_NOT_ENOUGH_SPACE"
                                      ELSE NvsCommit(1, "rw")
    IN  IF out.err # "ESP_OK"
        THEN Failed(IF setCall = "SetInt" THEN "Failed to set integer value"
                    ELSE "Failed to set string value",
                    <<OpenOk, Called(setCall, out.err)>>, out.store, TRUE)
        ELSE IF commit # "ESP_OK"
        THEN [Failed("Failed to commit NVS",
                     <<OpenOk, Called(setCall, out.err), Called("Commit", commit)>>,
                     out.store, TRUE) EXCEPT !.set = SetOf(req, t, FALSE)]
        ELSE Handled("ESP_OK", <<Reply("Configuration set\n")>>,
                     <<OpenOk, Called(setCall, out.err), Called("Commit", commit)>>,
                     out.store, TRUE, SetOf(req, t, TRUE))

\* A Set of the handler under the fault of the environment.
Faulty(outs, st, fault) ==
    IF fault = "set"
    THEN {[err |-> "ESP_ERR_NVS_NOT_ENOUGH_SPACE", store |-> st]}
    ELSE outs

\* The type checks of a numeric and of a string value in DoConfigSetKey.
IntegerValueType_Any(t) == TRUE
IntegerValueType(t) == t \in NvsIntTypes

\* App::DoConfigSetKey on the request req: the possible outcomes.
DoConfigSetKey(st, ns, req, fault) ==
    LET parsed == TypeOf(req.type)
        t == TypeNameOf(parsed.tag)
        open == HandlerOpen(ns, "rw", fault)
        lib == open.lib
    IN  IF req.pre # "ok" THEN {Failed(req.pre, <<>>, st, ns)}
        ELSE IF ~req.typed THEN {Failed("Failed to parse type", <<>>, st, ns)}
        ELSE IF parsed.err # "ESP_OK" THEN {Failed("Unknown type", <<>>, st, ns)}
        ELSE IF open.err # "ESP_OK"
        THEN {Failed("Failed to open NVS handle", <<Called("Open", open.err)>>,
                     st, ns)}
        ELSE IF req.kind = "number"
        THEN IF ~IntegerValueType(t)
             THEN {Failed("Invalid type for integer value", <<OpenOk>>, st, TRUE)}
             ELSE {SetKeyCommit(req, t, "SetInt", out, fault) :
                      out \in Faulty(SetInt(st, 1, lib, req.key, t,
                                            ToDouble(ValueInt(ToDouble(req.num)))),
                                     st, fault)}
        ELSE IF req.kind = "string"
        THEN IF t = "string"
             THEN {SetKeyCommit(req, t, "SetString", out, fault) :
                      out \in Faulty({SetString(st, 1, lib, req.key, req.text)},
                                     st, fault)}
             ELSE IF t = "blob"
             THEN LET dec == Base64Decode(Len(req.text), req.text)
                  IN  IF dec.ret # "0"
                      THEN {Failed("Failed to decode base64 value", <<OpenOk>>,
                                   st, TRUE)}
                      ELSE {SetKeyCommit([req EXCEPT !.text = dec.bytes], t,
                                         "SetBlob", out, fault) :
                               out \in Faulty({SetBlob(st, 1, lib, req.key,
                                                       dec.bytes)}, st, fault)}
             ELSE {Failed("Invalid type for string value", <<OpenOk>>, st, TRUE)}
        ELSE {Failed("Failed to parse value", <<OpenOk>>, st, TRUE)}

\* App::DoConfigGetKey
DoConfigGetKey(st, ns, req, fault) ==
    LET open == HandlerOpen(ns, "ro", fault)
        f == FindKey(st, 1, open.lib, req.key)
    IN  IF req.pre # "ok" THEN {Failed(req.pre, <<>>, st, ns)}
        ELSE IF open.err # "ESP_OK"
        THEN {Failed("Failed to open NVS handle", <<Called("Open", open.err)>>,
                     st, ns)}
        ELSE IF f.err # "ESP_OK"
        THEN {Failed("Failed to find key", <<OpenOk, Called("FindKey", f.err)>>,
                     st, ns)}
        ELSE {IF n.err # ""
              THEN Failed(n.err, <<OpenOk, Called("FindKey", f.err),
                                   Called("Get", "ESP_FAIL")>>, st, ns)
              ELSE Handled("ESP_OK", <<ReplyJson(<<n.node>>)>>,
                           <<OpenOk, Called("FindKey", f.err),
                             Called("Get", "ESP_OK")>>, st, ns, NoSet)
              : n \in JsonNode(st, open.lib, req.key, f.type)}

\* The keys of the store in the order of the std::map of DoConfigGetAll.
KeyOrder == <<"broker", "topic-base">>

\* The listing nvs_entry_find and nvs_entry_next produce: the loop ends on
\* the first result other than ESP_OK, whatever it is.
EntriesListed_Checked(st, fault) ==
    SelectSeq(KeyOrder, LAMBDA k : st[k].type # "none")
EntriesListed(st, fault) ==
    IF fault = "entry_find" THEN <<>>
    ELSE SelectSeq(KeyOrder, LAMBDA k : st[k].type # "none")

\* The loop over the keys of a namespace in DoConfigGetAll: the first
\* JsonNode that fails ends the handler.
RECURSIVE GetAllNodes(_, _, _, _)
GetAllNodes(st, lib, keys, done) ==
    IF Len(keys) = 0 THEN {[err |-> "", nodes |-> done]}
    ELSE UNION {IF n.err # "" THEN {[err |-> n.err, nodes |-> done]}
                ELSE GetAllNodes(st, lib, Tail(keys), Append(done, n.node))
                : n \in JsonNode(st, lib, Head(keys), st[Head(keys)].type)}

\* App::DoConfigGetAll: the result of its Open is not looked at.
DoConfigGetAll(st, ns, fault) ==
    LET listed == EntriesListed(st, fault)
        open == HandlerOpen(ns, "ro", fault)
        calls == IF Len(listed) = 0
                 THEN <<Called("nvs_entry_find",
                               IF fault = "entry_find"
                               THEN "ESP_ERR_NO_MEM" ELSE "ESP_ERR_NVS_NOT_FOUND")>>
                 ELSE <<Called("nvs_entry_find", "ESP_OK"),
                        Called("Open", open.err)>>
    IN  {IF r.err # ""
         THEN Failed(r.err, Append(calls, Called("Get", "ESP_FAIL")), st, ns)
         ELSE Handled("ESP_OK", <<ReplyJson(r.nodes)>>, calls, st, ns, NoSet)
         : r \in GetAllNodes(st, open.lib, listed, <<>>)}

\* App::DoConfigDeleteKey and App::DoConfigDeleteNameSpace
Erasing(msg, done, call, out, st, ns, fault) ==
    LET err == IF fault = "erase" THEN "ESP_ERR_NVS_REMOVE_FAILED" ELSE out.err
    IN  IF err # "ESP_OK"
        THEN Failed(msg, <<OpenOk, Called(call, err)>>, st, TRUE)
        ELSE Handled("ESP_OK", <<Reply(done)>>, <<OpenOk, Called(call, err)>>,
                     out.store, TRUE, NoSet)
DoConfigDeleteKey(st, ns, req, fault) ==
    LET open == HandlerOpen(ns, "rw", fault)
    IN  IF req.pre # "ok" THEN Failed(req.pre, <<>>, st, ns)
        ELSE IF open.err # "ESP_OK"
        THEN Failed("Failed to open NVS handle", <<Called("Open", open.err)>>,
                    st, ns)
        ELSE Erasing("Failed to delete key", "Key Deleted", "EraseKey",
                     EraseKey(st, 1, open.lib, req.key), st, ns, fault)
DoConfigDeleteNameSpace(st, ns, req, fault) ==
    LET open == HandlerOpen(ns, "rw", fault)
    IN  IF req.pre # "ok" THEN Failed(req.pre, <<>>, st, ns)
        ELSE IF open.err # "ESP_OK"
        THEN Failed("Failed to open NVS handle", <<Called("Open", open.err)>>,
                    st, ns)
        ELSE Erasing("Failed to delete namespace", "Namespace Deleted",
                     "EraseAll", EraseAll(st, 1, open.lib), st, ns, fault)

\* The requests the clients of the model send.  Integer values of three
\* integer types, each with the ends of its range; blobs of every length
\* modulo three as their base64 text, and texts that are not base64.
HttpIntTypes == {"uint8", "uint32", "int64"}
HttpBlobs == {<<>>, <<255>>, <<0, 255>>, <<77, 97, 110>>}
MalformedTexts == {<<33, 33, 33, 33>>, <<81, 61, 81, 81>>, <<81, 61, 61, 61>>}
Base64Inputs == {B64Text(b) : b \in HttpBlobs} \cup MalformedTexts \cup {<<81, 81>>}
NumberRequest(ty, v) ==
    [NoHttpReq EXCEPT !.pre = "ok", !.typed = TRUE, !.type = ty,
                      !.key = "broker", !.kind = "number", !.num = v]
StringRequest(ty, k, text) ==
    [NoHttpReq EXCEPT !.pre = "ok", !.typed = TRUE, !.type = ty, !.key = k,
                      !.kind = "string", !.text = text]
KeyRequests ==
    {[NoHttpReq EXCEPT !.pre = "ok", !.key = k] : k \in NvsKeys}
        \cup {[NoHttpReq EXCEPT !.pre = e] : e \in QueryErrors}
SetKeyRequests ==
    UNION {{NumberRequest(ty, v) : v \in IntInputs(ty)} : ty \in HttpIntTypes}
        \cup {NumberRequest(ty, MaxOf("uint8")) : ty \in {"string", "blob", "any", "float"}}
        \cup {StringRequest("string", k, b) : k \in NvsKeys, b \in StringInputs}
        \cup {StringRequest("blob", "broker", x) : x \in Base64Inputs}
        \cup {StringRequest(ty, "broker", b) : ty \in {"uint8", "any", "unknown"},
                                              b \in StringInputs}
        \cup {[NumberRequest(ty, MaxOf("uint8")) EXCEPT !.kind = "other"] :
                 ty \in {"uint8", "string"}}
        \cup {[NumberRequest("", MaxOf("uint8")) EXCEPT !.typed = FALSE]}
        \cup {[NoHttpReq EXCEPT !.pre = e] : e \in QueryErrors \cup BodyErrors}

\* A handler ran on the request req with the outcome out.
HttpHandled(op, req, out) ==
    /\ httpd_started
    /\ nvs_store' = out.store
    /\ nvs_mqtt' = MqttConfigured(out.store)
    /\ nvs_ns' = out.ns
    /\ lastCall' = [NoCall EXCEPT !.op = op, !.key = req.key, !.err = out.ret,
                                  !.calls = out.calls, !.replies = out.replies,
                                  !.req = req,
                                  !.touched = (out.store # nvs_store)]
    /\ UNCHANGED <<nvs_lib, handle_, releases>>
    /\ UNCHANGED <<pc, provVars, mqttRest, updVars, extVars>>

CallDoConfigSetKey ==
    \E req \in SetKeyRequests, fault \in SetFaults :
      \E out \in DoConfigSetKey(nvs_store, nvs_ns, req, fault) :
        /\ HttpHandled("DoConfigSetKey", req, out)
        /\ IF out.set.state = "set"
           THEN /\ lastSet' = out.set
                /\ erased' = erased \ {req.key}
           ELSE UNCHANGED <<lastSet, erased>>

CallDoConfigGetKey ==
    \E req \in KeyRequests, fault \in GetFaults :
      \E out \in DoConfigGetKey(nvs_store, nvs_ns, req, fault) :
        /\ HttpHandled("DoConfigGetKey", req, out)
        /\ UNCHANGED <<lastSet, erased>>

CallDoConfigGetAll ==
    \E fault \in ListFaults :
      \E out \in DoConfigGetAll(nvs_store, nvs_ns, fault) :
        /\ HttpHandled("DoConfigGetAll", NoHttpReq, out)
        /\ UNCHANGED <<lastSet, erased>>

CallDoConfigDeleteKey ==
    \E req \in KeyRequests, fault \in EraseFaults :
      LET out == DoConfigDeleteKey(nvs_store, nvs_ns, req, fault)
      IN  /\ HttpHandled("DoConfigDeleteKey", req, out)
          /\ IF out.ret = "ESP_OK"
             THEN /\ erased' = erased \cup {req.key}
                  /\ lastSet' = IF lastSet.key = req.key THEN NoSet ELSE lastSet
             ELSE UNCHANGED <<lastSet, erased>>

CallDoConfigDeleteNameSpace ==
    \E req \in KeyRequests, fault \in EraseFaults :
      LET out == DoConfigDeleteNameSpace(nvs_store, nvs_ns, req, fault)
      IN  /\ HttpHandled("DoConfigDeleteNameSpace", req, out)
          /\ IF out.ret = "ESP_OK"
             THEN /\ erased' = NvsKeys
                  /\ lastSet' = NoSet
             ELSE UNCHANGED <<lastSet, erased>>

Next ==
    \/ Provision
    \/ ProvisionWait
    \/ OnProvCredRecv
    \/ OnProvCredFail
    \/ OnProvCredSuccess
    \/ OnProvEnd
    \/ OnStaStart
    \/ OnStaDisconnected
    \/ OnGotIp
    \/ StartHttpd
    \/ VerifyUpdate
    \/ InitMQTT
    \/ AddSubscription
    \/ StartMQTT
    \/ PublishMessage
    \/ PublishUninit
    \/ OnMqttConnected
    \/ OnMqttDisconnected
    \/ OnMqttData
    \/ OnMqttPublished
    \/ OnMqttError
    \/ Update
    \/ DoReset
    \/ Open
    \/ Close
    \/ Destroy
    \/ CallSetInt
    \/ CallSetString
    \/ CallSetBlob
    \/ CallCommit
    \/ CallGet
    \/ CallFindKey
    \/ CallGetInt
    \/ CallGetString
    \/ CallGetBlob
    \/ CallEraseKey
    \/ CallEraseAll
    \/ Restart
    \/ DoFirmwareUpgradeRejected
    \/ AddHeader
    \/ AddSubscriptionLate
    \/ AddSubscriptionRace
    \/ ResetProvisioning
    \/ WatcherPoll
    \/ WatcherReset
    \/ WatcherRestart
    \/ GetInstance
    \/ CallTypeOf
    \/ CallTypeName
    \/ CallDoConfigSetKey
    \/ CallDoConfigGetKey
    \/ CallDoConfigGetAll
    \/ CallDoConfigDeleteKey
    \/ CallDoConfigDeleteNameSpace

Spec == Init /\ [][Next]_vars

(***************************************************************************)
(* Component specifications: the same state and actions, with the          *)
(* environment of the other components silent (no MQTT event and no HTTP   *)
(* request is ever forced to arrive).                                      *)
(***************************************************************************)
\* The Provisioner with the main task up to the start of the HTTP server.
NextProv ==
    \/ Provision
    \/ ProvisionWait
    \/ OnProvCredRecv
    \/ OnProvCredFail
    \/ OnProvCredSuccess
    \/ OnProvEnd
    \/ OnStaStart
    \/ OnStaDisconnected
    \/ OnGotIp
    \/ StartHttpd
    \/ DoReset

SpecProv == Init /\ [][NextProv]_vars

\* The Provisioner with a caller of ResetProvisioning.
NextReset ==
    \/ NextProv
    \/ ResetProvisioning

SpecReset == Init /\ [][NextReset]_vars

\* The ReprovionerTask beside the main task during Provision.
NextWatch ==
    \/ Provision
    \/ ProvisionWait
    \/ OnStaStart
    \/ OnGotIp
    \/ OnProvCredRecv
    \/ WatcherPoll
    \/ WatcherReset
    \/ WatcherRestart

\* app_main passes "CH".
InitWatch == Init /\ country = "CH"
SpecWatch == InitWatch /\ [][NextWatch]_vars

\* The watcher task is scheduled: after its delays it calls
\* ResetProvisioning and esp_restart.
SpecWatchLive ==
    /\ SpecWatch
    /\ WF_vars(WatcherReset)
    /\ WF_vars(WatcherRestart)

\* The first calls of S::GetInstance() by concurrent threads.
InitSingleton == InitRest /\ SingletonsFresh
SpecSingleton == InitSingleton /\ [][GetInstance]_vars

\* A boot of a device that holds Wi-Fi credentials.
InitProvisioned == Init /\ provisioned = TRUE /\ country = "CH"

\* The MQTT client on a provisioned device whose station stays connected.
NextMqtt ==
    \/ OnStaDisconnected
    \/ Provision
    \/ ProvisionWait
    \/ OnStaStart
    \/ OnGotIp
    \/ StartHttpd
    \/ VerifyUpdate
    \/ InitMQTT
    \/ AddSubscription
    \/ StartMQTT
    \/ PublishMessage
    \/ PublishUninit
    \/ OnMqttConnected
    \/ OnMqttDisconnected
    \/ OnMqttData
    \/ OnMqttPublished
    \/ OnMqttError

SpecMqtt == InitProvisioned /\ [][NextMqtt]_vars

\* The boot up to MQTT::Start, with a holder of an NvsHandle that writes and
\* erases the entries of the mqtt namespace.
NextMqttInit ==
    \/ Provision
    \/ ProvisionWait
    \/ OnStaStart
    \/ OnGotIp
    \/ StartHttpd
    \/ VerifyUpdate
    \/ InitMQTT
    \/ AddSubscription
    \/ StartMQTT
    \/ Open
    \/ CallSetString
    \/ CallEraseKey

SpecMqttInit == InitProvisioned /\ [][NextMqttInit]_vars

\* The MQTT client with a task that registers subscriptions after Start().
NextMqttLate ==
    \/ OnStaDisconnected
    \/ Provision
    \/ ProvisionWait
    \/ OnStaStart
    \/ OnGotIp
    \/ StartHttpd
    \/ VerifyUpdate
    \/ InitMQTT
    \/ AddSubscription
    \/ StartMQTT
    \/ AddSubscriptionLate
    \/ AddSubscriptionRace
    \/ OnMqttConnected
    \/ OnMqttDisconnected

SpecMqttLate == InitProvisioned /\ [][NextMqttLate]_vars

\* The Updater on a provisioned device whose station stays connected.
NextUpd ==
    \/ OnStaDisconnected
    \/ Provision
    \/ ProvisionWait
    \/ OnStaStart
    \/ OnGotIp
    \/ StartHttpd
    \/ VerifyUpdate
    \/ InitMQTT
    \/ StartMQTT
    \/ Update
    \/ DoReset

SpecUpd == InitProvisioned /\ [][NextUpd]_vars

\* The /firmware-upgrade route with a task that registers headers on the
\* Updater.
NextUpgrade ==
    \/ Provision
    \/ ProvisionWait
    \/ OnStaStart
    \/ OnGotIp
    \/ StartHttpd
    \/ VerifyUpdate
    \/ AddHeader
    \/ Update
    \/ DoFirmwareUpgradeRejected

SpecUpgrade == InitProvisioned /\ [][NextUpgrade]_vars

\* The same, with the scheduling the program can rely on: the main task runs
\* whenever it is ready, and esp_wifi_start is followed by WIFI_EVENT_STA_START.
\* Nothing obliges the network to hand out an address or the HTTP clients to
\* send a request.
SpecUpdLive ==
    /\ SpecUpd
    /\ WF_vars(Provision)
    /\ WF_vars(ProvisionWait)
    /\ WF_vars(OnStaStart)
    /\ WF_vars(StartHttpd)
    /\ WF_vars(VerifyUpdate)
    /\ WF_vars(InitMQTT)
    /\ WF_vars(StartMQTT)

\* A boot of a provisioned device that runs a valid image.
InitNvs == InitProvisioned /\ ota_state[0] = "ESP_OTA_IMG_VALID"

\* The configuration store under Set, Commit, Get, FindKey and Erase calls of
\* a holder of an open NvsHandle, across restarts.
NextNvs ==
    \/ Open
    \/ CallSetInt
    \/ CallSetString
    \/ CallSetBlob
    \/ CallCommit
    \/ CallGet
    \/ CallFindKey
    \/ CallEraseKey
    \/ CallEraseAll
    \/ Restart

SpecNvs == InitNvs /\ [][NextNvs]_vars

\* The configuration web services of a device that has booted up to its
\* HTTP server.
NextHttp ==
    \/ Provision
    \/ ProvisionWait
    \/ OnStaStart
    \/ OnGotIp
    \/ StartHttpd
    \/ CallDoConfigSetKey
    \/ CallDoConfigGetKey
    \/ CallDoConfigGetAll
    \/ CallDoConfigDeleteKey
    \/ CallDoConfigDeleteNameSpace

InitHttp == InitNvs /\ retries_ = 0
SpecHttp == InitHttp /\ [][NextHttp]_vars

\* The configuration store under the typed getters and setters.
NextNvsTyped ==
    \/ Open
    \/ CallSetInt
    \/ CallSetString
    \/ CallSetBlob
    \/ CallGetInt
    \/ CallGetString
    \/ CallGetBlob

SpecNvsTyped == InitNvs /\ [][NextNvsTyped]_vars

\* Calls of the two static conversions.
NextNvsNames ==
    \/ CallTypeOf
    \/ CallTypeName

SpecNvsNames == InitNvs /\ [][NextNvsNames]_vars

\* The life of NvsHandle objects: Open, use, Close, destruction.
NextNvsHandle ==
    \/ Open
    \/ Close
    \/ Destroy
    \/ CallSetString
    \/ CallCommit
    \/ CallGet
    \/ Restart

SpecNvsHandle == InitNvs /\ [][NextNvsHandle]_vars

(***************************************************************************)
(* Properties.                                                             *)
(***************************************************************************)
\* C1: after exactly kMaxRetriesCount consecutive WIFI_PROV_CRED_FAIL events
\* the stored credentials are discarded, the state machine awaits credentials
\* again and retries_ is 0; before that the credentials are kept and retries_
\* counts the failures.
C1_RetryCeiling ==
    lastEvent = "WIFI_PROV_CRED_FAIL" =>
        IF failStreak = kMaxRetriesCount
        THEN /\ ~provisioned
             /\ prov_state = "AwaitingCredentials"
             /\ retries_ = 0
        ELSE /\ provisioned
             /\ prov_state = "CredentialFailure"
             /\ retries_ = failStreak

C1_Witness ==
    /\ lastEvent = "WIFI_PROV_CRED_FAIL"
    /\ failStreak = kMaxRetriesCount
    /\ ~provisioned
    /\ retries_ = 0

\* C2: once any event handler of the Provisioner has completed,
\* 0 <= retries_ < kMaxRetriesCount, on both paths of Provision.
C2_RetryBounded ==
    lastEvent # "none" => (0 <= retries_ /\ retries_ < kMaxRetriesCount)

\* C3: immediately after WIFI_PROV_CRED_SUCCESS is handled retries_ is 0,
\* whatever it was before.
C3_SuccessResets ==
    lastEvent = "WIFI_PROV_CRED_SUCCESS" => retries_ = 0

C3_Witness ==
    /\ lastEvent = "WIFI_PROV_CRED_SUCCESS"
    /\ failStreak = 3
    /\ retries_ = 0

\* C4: Provision does not return before an IP_EVENT_STA_GOT_IP was handled
\* after the call began; handling that event releases a blocked caller; no
\* other step releases it.
GotIpStep == wifi = "connecting" /\ wifi' = "got_ip"
ProvisionReturned == pc \notin {"App_Provision", "WaitBits", "blocked"}

C4_ProvisionBlocksUntilGotIp ==
    /\ [](ProvisionReturned => gotIpSinceCall)
    /\ [][(pc = "blocked" /\ GotIpStep) => pc' = "Provision_return"]_vars
    /\ [][(pc = "blocked" /\ pc' = "Provision_return") => GotIpStep]_vars

C4_Witness ==
    /\ pc = "Provision_return"
    /\ lastEvent = "IP_EVENT_STA_GOT_IP"
    /\ ~wifi_event_group_
    /\ gotIpSinceCall

\* C5: a publish while connected_ is false returns a not-connected error and
\* hands nothing to the transport.
C5_PublishNotConnected ==
    (lastPublish.called /\ ~lastPublish.connected) =>
        (lastPublish.ret = "NotConnectedError" /\ ~lastPublish.handed)

\* C6: every MQTT_EVENT_CONNECTED issues one subscribe call per registered
\* subscription, in registration order and with its qos, whether or not some
\* of the calls fail.
C6_ReplayInOrder ==
    [][connects' = connects + 1 =>
          (connected_' /\ lastReplay' = subscriptions_)]_vars

C6_Witness ==
    /\ connects = 2
    /\ lastReplay = << <<"a", 1>>, <<"b", 2>> >>
    /\ lastSubFailed[1]

\* C7: once an MQTT_EVENT_ERROR was observed, no further event of the session
\* reaches MQTT::EventHandler: connected_ no longer changes and no subscribe
\* call is issued.
C7_PoisonedSession ==
    [][(errorSeen /\ errorSeen') =>
          /\ connected_' = connected_
          /\ connects' = connects
          /\ lastReplay' = lastReplay
          /\ lastMqttEvent' = lastMqttEvent]_vars

\* C8: no application publish reaches the transport before the subscription
\* replay of the session has been issued.
C8_ReplayBeforePublish ==
    (lastPublish.called /\ lastPublish.handed) => lastPublish.replayed

\* C9: when the download/flash step of Update succeeds the device restarts,
\* and Update never returns ESP_OK to its caller.
C9_SuccessReboots ==
    /\ updateRet # "ESP_OK"
    /\ otaResult = "ESP_OK" =>
          (pc = "App_Provision" /\ ~httpd_started /\ updateRet = "none")

C9_Witness ==
    /\ otaResult = "ESP_OK"
    /\ pc = "App_Provision"
    /\ running = 1
    /\ PendingVerification(running, ota_state)

\* C10: when the download/flash step of Update fails, Update returns an
\* error, the device does not restart, and the running image and the state of
\* the OTA partitions are unchanged.
C10_FailureReturns ==
    [][(otaResult' \notin {"none", "ESP_OK"} /\ otaResult' # otaResult) =>
          /\ updateRet' = "ESP_FAIL"
          /\ pc' = pc
          /\ httpd_started'
          /\ running' = running
          /\ ota_state' = ota_state]_vars

C10_Witness ==
    /\ otaResult = "ESP_ERR_OTA_VALIDATE_FAILED"
    /\ updateRet = "ESP_FAIL"
    /\ httpd_started

\* C11: PendingVerification() is true on the first boot after a successful
\* flash and restart; the step in which Commit() is called makes it false; and
\* it becomes true only by a successful flash and restart, so that it stays
\* false after Commit() until a new image is flashed.
CommitStep ==
    /\ pc = "PendingVerification"
    /\ PendingVerification(running, ota_state)
    /\ pc' = "InitMQTT"

C11_PendingUntilCommit ==
    /\ [](otaResult = "ESP_OK" => PendingVerification(running, ota_state))
    /\ [][CommitStep => ~PendingVerification(running', ota_state')]_vars
    /\ [][(~PendingVerification(running, ota_state)
            /\ PendingVerification(running', ota_state'))
          => (otaResult' = "ESP_OK" /\ pc' = "App_Provision")]_vars

C11_Witness ==
    /\ pc = "InitMQTT"
    /\ running = 1
    /\ ota_state[1] = "ESP_OTA_IMG_VALID"
    /\ ~PendingVerification(running, ota_state)

\* C12: whenever the running image is pending verification, the pending state
\* eventually ends (by Commit or by a rollback), also when the station never
\* obtains an address.
C12_DecisionEventually ==
    PendingVerification(running, ota_state)
        ~> ~PendingVerification(running, ota_state)

\* C13: the pending-verification evaluation and Commit happen only after an
\* IP_EVENT_STA_GOT_IP released Provision, and MQTT::Init and MQTT::Start run
\* only after the evaluation has completed.
C13_StartupOrdering ==
    /\ [](pc = "PendingVerification" => (ProvisionReturned /\ gotIpSinceCall))
    /\ [][(ota_state[running] # "ESP_OTA_IMG_VALID"
            /\ ota_state'[running] = "ESP_OTA_IMG_VALID")
          => (pc = "PendingVerification" /\ gotIpSinceCall)]_vars
    /\ [][(pc' = "InitMQTT" /\ pc # "InitMQTT")
          => (pc = "PendingVerification"
              /\ ~PendingVerification(running', ota_state'))]_vars
    /\ [][(client_' # client_ /\ client_' # "uninit")
          => pc \in {"InitMQTT", "AddSubscription"}]_vars

C13_Witness ==
    /\ client_ = "started"
    /\ pc = "loop"
    /\ gotIpSinceCall
    /\ running = 1
    /\ ota_state[1] = "ESP_OTA_IMG_VALID"

\* C14: the diagnostic that decides between Commit() and Rollback() can fail:
\* whenever the main task is about to decide on an image that is pending
\* verification, a failing diagnostic (and so Rollback()) is a possible outcome.
C14_RollbackReachable ==
    (pc = "PendingVerification" /\ PendingVerification(running, ota_state))
        => (\E d \in DiagnosticOutcomes : ~d)

\* A Get that ran on an open handle and read the key of the last successful Set.
GetOfLastSet ==
    /\ lastCall.op = "Get"
    /\ lastCall.err # "ESP_ERR_NVS_INVALID_HANDLE"
    /\ lastSet.state = "set"
    /\ lastSet.committed
    /\ lastCall.key = lastSet.key

\* What the Get returned is what the Set was given: same type, same value.
ReturnsLastSet ==
    /\ lastCall.err = "ESP_OK"
    /\ lastCall.type = lastSet.type
    /\ lastCall.num = lastSet.num
    /\ lastCall.bytes = lastSet.bytes

\* C15: type round trip: for every supported type T and every value v of T,
\* Set(k, T, v), then Commit, then Get(k) in the same boot returns (T, v).
C15_TypeRoundTrip ==
    (GetOfLastSet /\ ~lastSet.restarted) => ReturnsLastSet

\* C16: a typed read of a key that is stored with another type returns the
\* type-mismatch error and gives the caller no value; GetInt and SetInt with a
\* tag that is no integer type return the type-mismatch error and leave the
\* store alone.
C16_MismatchFails ==
    /\ (/\ lastCall.op \in {"GetInt", "GetString", "GetBlob"}
        /\ HandleValid(handle_, nvs_lib)
        /\ nvs_store[lastCall.key].type \notin {"none", lastCall.tag})
       => (lastCall.err = "ESP_ERR_NVS_TYPE_MISMATCH" /\ ~lastCall.assigned)
    /\ (lastCall.op \in {"GetInt", "SetInt"} /\ lastCall.tag \notin NvsIntTypes)
       => (/\ lastCall.err = "ESP_ERR_NVS_TYPE_MISMATCH"
           /\ ~lastCall.assigned
           /\ ~lastCall.touched)

\* C17: erase is immediate: once EraseKey(k) or EraseAll succeeded, and until
\* the key is set again, the key is gone from the store and every Get and
\* FindKey on an open handle reports it as not found, with or without a
\* Commit and also after a restart.
C17_EraseImmediate ==
    /\ \A k \in erased : nvs_store[k] = NoEntry
    /\ (/\ lastCall.op \in {"Get", "FindKey"}
        /\ lastCall.err # "ESP_ERR_NVS_INVALID_HANDLE"
        /\ lastCall.key \in erased)
       => lastCall.err = "ESP_ERR_NVS_NOT_FOUND"

\* EraseKey("broker") succeeded, no Commit followed, and a FindKey of the key
\* reports it as not found while the other key is still stored.
C17_Witness ==
    /\ erased = {"broker"}
    /\ nvs_store["topic-base"].type = "string"
    /\ lastCall.op = "FindKey"
    /\ lastCall.key = "broker"
    /\ lastCall.err = "ESP_ERR_NVS_NOT_FOUND"

\* C18: committed configuration is durable across restarts: a value written by
\* Set and committed is returned unchanged, with the same type, by a Get of the
\* same key after a restart, as long as no later Set or Erase targets the key.
C18_DurableAcrossRestarts ==
    (GetOfLastSet /\ lastSet.restarted) => ReturnsLastSet

\* C19: Close is idempotent: the handle of the library that an Open returned
\* is released (nvs_close) at most once, whatever sequence of Close calls and
\* destruction follows.
C19_CloseOnce == releases <= 1


\* C20: every wifi disconnect event is answered with a new wifi-level connect
\* attempt: whatever retries_ and the provisioning state are, and however many
\* disconnects came before, the station is connecting again when the handler
\* of WIFI_EVENT_STA_DISCONNECTED returns, and stays so until the next event.
C20_AlwaysReconnects ==
    [][lastEvent' = "WIFI_EVENT_STA_DISCONNECTED" => wifi' = "connecting"]_vars

\* A disconnect was handled after credential failures had been counted.
C20_Witness ==
    /\ lastEvent = "WIFI_EVENT_STA_DISCONNECTED"
    /\ wifi = "connecting"
    /\ retries_ = kMaxRetriesCount - 1


\* A call of ResetProvisioning that was counted.
ResetStep == resetCalls' = resetCalls + 1

\* C21: ResetProvisioning() can be called in every provisioning state; it
\* discards the stored credentials and leaves retries_ and the connected
\* signal as they were.
C21_ResetFrame ==
    /\ [][ResetStep => (/\ ~provisioned'
                        /\ retries_' = retries_
                        /\ wifi_event_group_' = wifi_event_group_)]_vars
    /\ \A ps \in ProvStates :
          [](prov_state = ps /\ resetCalls < MaxResets => ENABLED ResetProvisioning)

\* ResetProvisioning was called after credential failures had been counted
\* and the credentials are gone while retries_ still holds the count.
C21_Witness ==
    /\ resetCalls > 0
    /\ ~provisioned
    /\ prov_state = "CredentialFailure"
    /\ retries_ = kMaxRetriesCount - 1


\* The step of the main task through Provisioner::Provision up to the wait.
ProvisionStep == pc = "App_Provision" /\ pc' = "WaitBits"

\* C22: Provision chooses its path from the stored credentials.  Without
\* stored credentials it starts the provisioning service (awaiting
\* credentials, retries_ = 0) and does not call InitSTA; with stored
\* credentials it calls InitSTA, and the provisioning service is not started
\* then or later in that boot.
C22_PathFromCredentials ==
    /\ [][ProvisionStep =>
            IF provisioned
            THEN /\ provPath' = "InitSTA"
                 /\ prov_state' = "Deinit"
                 /\ wifi' = "started"
            ELSE /\ provPath' = "start_provisioning"
                 /\ prov_state' = "AwaitingCredentials"
                 /\ retries_' = 0]_vars
    /\ [](provPath = "InitSTA" => prov_state = "Deinit")

\* A device with stored credentials got its address on the InitSTA path.
C22_Witness ==
    /\ provPath = "InitSTA"
    /\ prov_state = "Deinit"
    /\ wifi = "got_ip"
    /\ pc = "Provision_return"

\* C23: the country code is applied before the wait begins: whenever the
\* caller of Provision waits for the connected signal, the Wi-Fi driver
\* applies the country code that was passed to Provision.
C23_CountryBeforeWait ==
    pc \in {"WaitBits", "blocked"} => country_code = country


\* A subscription is registered on the started client outside the handler of
\* MQTT_EVENT_CONNECTED.
LateAddStep ==
    /\ client_ = "started"
    /\ client_' = "started"
    /\ subscriptions_' # subscriptions_
    /\ connects' = connects

\* MQTT_EVENT_CONNECTED is handled while no subscription is being registered.
ConnectedStep == connects' = connects + 1 /\ subscriptions_' = subscriptions_

UpdateAttempt == lastRequest'.made /\ lastRequest' # lastRequest

Sent(r) == \E i \in 1..Len(upgradeReplies) : upgradeReplies[i] = r

\* C28: outcome of a firmware-upgrade request: when the update failed, the
\* caller that initiated it was sent the error response and no success
\* response; when the update succeeded (the device rebooted), no response
\* was sent to the caller.
C28_UpgradeOutcome ==
    /\ otaResult \notin {"none", "ESP_OK"}
          => (Sent(ReplyFailed) /\ ~Sent(ReplyStarted))
    /\ otaResult = "ESP_OK" => upgradeReplies = <<>>

\* C29: start-up read ordering: when Provision has been called and the main
\* task waits in it, both the hostname and the broker settings have been
\* read from the NVS in this boot.
C29_ReadsBeforeProvision ==
    pc \in {"WaitBits", "blocked"} => {"hostname", "broker"} \subseteq configReads


\* The step of the watcher that calls ResetProvisioning, and its esp_restart.
WatcherResetStep == wpc = "reset" /\ wpc' = "restart"
WatcherRebootStep == wpc = "restart" /\ wpc' = "none"

\* C26: reprovision watcher: a hold observed past the threshold of 10 s
\* always ends the polling (the watcher never polls on with the button held
\* for more than 10 s) and nothing else does; from there the watcher can only
\* call ResetProvisioning, which discards the credentials, and after that can
\* only restart; a restart by the watcher always follows its call of
\* ResetProvisioning in the same boot.
C26_HoldResetsThenReboots ==
    /\ [](wpc = "poll" => held <= kHoldMs)
    /\ [][(wpc = "poll" /\ wpc' # "poll")
            => (wpc' = "reset" /\ prev_btn_state = 0 /\ held' > kHoldMs)]_vars
    /\ [](wpc = "reset" => ENABLED WatcherReset)
    /\ [][wpc = "reset"
            => (wpc' \in {"reset", "restart"}
                /\ (WatcherResetStep => (ResetStep /\ ~provisioned')))]_vars
    /\ [](wpc = "restart" => (resetCalls > 0 /\ ENABLED WatcherRestart))
    /\ [][wpc' = "restart" => (wpc = "restart" \/ WatcherResetStep)]_vars
    /\ [][wpc = "restart" => (wpc' = "restart" \/ WatcherRebootStep)]_vars

\* The watcher has called ResetProvisioning on a provisioned device after a
\* hold of more than 10 s and is about to restart.
C26_Witness ==
    /\ wpc = "restart"
    /\ held > kHoldMs
    /\ prev_btn_state = 0
    /\ resetCalls = 1
    /\ ~provisioned
    /\ provPath = "InitSTA"


\* C27: singleton construction: whatever the interleaving of the threads
\* that call S::GetInstance(), at most one object of S is constructed, the
\* object is constructed once a call has returned, and every call returns
\* that one object.
C27_OneInstance ==
    /\ constructed <= 1
    /\ \A t \in Threads :
          (gi_pc[t] = "idle" /\ gi_ret[t] # 0)
             => (constructed = 1 /\ gi_ret[t] = 1 /\ instance_ = 1)
    /\ \A t \in Threads : gi_pc[t] = "return" => instance_ = 1

\* Two threads passed the first test together: the call of the first has
\* constructed the object and returned it, the second holds the mutex and is
\* at the second test.
C27_Witness ==
    /\ constructed = 1
    /\ gi_pc[1] = "idle" /\ gi_ret[1] = 1
    /\ gi_pc[2] = "check2" /\ semaphore_ = 2


\* The type strings of the specification, and the tags of the enumeration.
RecognisedTypeStrings ==
    {"uint8", "int8", "uint16", "int16", "uint32", "int32", "uint64", "int64",
     "string", "blob", "any"}
EnumTags ==
    {"NVS_TYPE_U8", "NVS_TYPE_I8", "NVS_TYPE_U16", "NVS_TYPE_I16",
     "NVS_TYPE_U32", "NVS_TYPE_I32", "NVS_TYPE_U64", "NVS_TYPE_I64",
     "NVS_TYPE_STR", "NVS_TYPE_BLOB", "NVS_TYPE_ANY"}

\* C30: type-string mapping: a call TypeOf(s) succeeds exactly when s is one
\* of the eleven type strings, and then TypeName of the tag it returned gives
\* s back without error in every buffer that holds s and its terminator;
\* for every other string TypeOf returns ESP_ERR_NVS_TYPE_MISMATCH with the
\* tag NVS_TYPE_ANY; a call of TypeName with a tag outside the enumeration
\* returns ESP_ERR_NVS_TYPE_MISMATCH and the name "unknown", and with a tag
\* of the enumeration it returns ESP_OK.
C30_TypeStrings ==
    /\ lastCall.op = "TypeOf" =>
          IF lastCall.name \in RecognisedTypeStrings
          THEN /\ lastCall.err = "ESP_OK"
               /\ lastCall.tag \in EnumTags
               /\ \A size \in NameSizes :
                     size > Len(lastCall.name) =>
                        TypeName(lastCall.tag, size) =
                           [err |-> "ESP_OK", name |-> lastCall.name,
                            terminated |-> TRUE]
          ELSE /\ lastCall.err = "ESP_ERR_NVS_TYPE_MISMATCH"
               /\ lastCall.tag = "NVS_TYPE_ANY"
    /\ lastCall.op = "TypeName" =>
          IF lastCall.tag \in EnumTags
          THEN lastCall.err = "ESP_OK"
          ELSE /\ lastCall.err = "ESP_ERR_NVS_TYPE_MISMATCH"
               /\ lastCall.size > Len("unknown")
                     => (lastCall.name = "unknown" /\ lastCall.terminated)

\* TypeOf has been called with a string whose name differs from its
\* neighbour by the sign only.
C30_Witness ==
    /\ lastCall.op = "TypeOf"
    /\ lastCall.name = "uint32"
    /\ lastCall.tag = "NVS_TYPE_U32"
    /\ lastCall.err = "ESP_OK"


\* C37: the connected flag tracks the session events: connected_ is false
\* as long as no event was dispatched in this boot; right after a
\* MQTT_EVENT_CONNECTED it is true and right after a MQTT_EVENT_DISCONNECTED
\* it is false; and it changes only in a step that dispatches one of these
\* two events (or restarts the device), so data, published and error events
\* leave it as it was.
C37_ConnectedTracksEvents ==
    /\ [](lastMqttEvent = "none" => ~connected_)
    /\ [](lastMqttEvent = "MQTT_EVENT_CONNECTED" => connected_)
    /\ [](lastMqttEvent = "MQTT_EVENT_DISCONNECTED" => ~connected_)
    /\ [][connected_' # connected_
            => \/ connected_' /\ lastMqttEvent' = "MQTT_EVENT_CONNECTED"
               \/ ~connected_' /\ lastMqttEvent' = "MQTT_EVENT_DISCONNECTED"
               \/ ~connected_' /\ lastMqttEvent' = "none"]_vars

\* An error event was dispatched in a session that had reconnected, and the
\* flag is still up.
C37_Witness ==
    /\ connected_
    /\ connects = 2
    /\ errorSeen
    /\ lastMqttEvent = "MQTT_EVENT_ERROR"

\* The step of app_main that tests PendingUpdateVerification() and goes on.
VerifyStep == pc = "PendingVerification" /\ pc' = "InitMQTT"

\* C40: when esp_ota_get_state_partition fails for the running image,
\* PendingVerification() is false, app_main can go on to InitMQTT, and the
\* step in which it does so performs neither Commit nor Rollback: the OTA
\* data and the running partition are as they were.
C40_UnreadableStateLeftAlone ==
    /\ [](esp_ota_get_state_partition(running, ota_state).res # "ESP_OK"
            => ~PendingVerification(running, ota_state))
    /\ []((pc = "PendingVerification"
           /\ esp_ota_get_state_partition(running, ota_state).res # "ESP_OK")
            => ENABLED (VerifyUpdate /\ VerifyStep))
    /\ [][(VerifyStep
           /\ esp_ota_get_state_partition(running, ota_state).res # "ESP_OK")
            => (ota_state' = ota_state /\ running' = running)]_vars

\* The test was made on an image whose state cannot be read, and app_main
\* went on.
C40_Witness ==
    /\ pc = "InitMQTT"
    /\ ota_state[running] = NoOtaData
    /\ httpd_started


\* app_main is parked in Provisioner::Provision.
Parked == pc \in {"WaitBits", "blocked"}

\* C39: the watcher runs while app_main is parked in Provision: it has been
\* started whenever app_main is parked; it can poll then, and with the
\* button seen down over more than 10 s its poll starts the reset; once
\* started, the reset leads to ResetProvisioning and to the restart of the
\* device, also when the Connected signal never arrives.
C39_WatcherDuringWait ==
    /\ [](Parked => wpc \in {"poll", "reset", "restart"})
    /\ []((Parked /\ wpc = "poll") => ENABLED WatcherPoll)
    /\ []((Parked /\ wpc = "poll" /\ prev_btn_state = 0
           /\ held + kPollMs > kHoldMs)
            => ENABLED (WatcherPoll /\ wpc' = "reset" /\ pc' = pc))
    /\ []((Parked /\ wpc = "reset")
            => ENABLED (WatcherReset /\ ~provisioned' /\ pc' = pc))
    /\ (wpc = "reset") ~> (wpc = "restart" /\ resetCalls > 0)
    /\ (wpc = "restart") ~> (wpc = "none" /\ pc = "App_Provision")

\* app_main is blocked, no address was ever obtained, and the watcher has
\* called ResetProvisioning after a hold of more than 10 s.
C39_Witness ==
    /\ pc = "blocked"
    /\ ~gotIpSinceCall
    /\ wpc = "restart"
    /\ resetCalls = 1
    /\ held > kHoldMs


\* The step of app_main that calls InitMQTT(), and a required entry of the
\* mqtt namespace that is missing.
InitMqttStep == pc = "InitMQTT" /\ pc' # pc
RequiredMissing ==
    nvs_store["broker"].type = "none" \/ nvs_store["topic-base"].type = "none"

\* C38: MQTT::Start is reached only after MQTT::Init returned ESP_OK; Init
\* returns a failure and leaves the client uncreated whenever "broker" or
\* "topic-base" is missing from the mqtt namespace; with both present it
\* can succeed whichever of "username" and "password" are missing, and
\* fails only when the client cannot be created or registered.
C38_StartOnlyAfterInit ==
    /\ [](pc = "AddSubscription" => mqtt_cfg.ret = "ESP_OK")
    /\ [](client_ = "started" => mqtt_cfg.ret = "ESP_OK")
    /\ [][InitMqttStep
            => /\ (mqtt_cfg'.ret = "ESP_OK") = (pc' = "AddSubscription")
               /\ mqtt_cfg'.ret # "ESP_OK" => (pc' = "loop" /\ client_' = client_)
               /\ RequiredMissing
                    => (mqtt_cfg'.ret = "ESP_FAIL" /\ client_' = "uninit")
               /\ (~RequiredMissing /\ MqttConfigured(nvs_store)
                   /\ mqtt_cfg'.ret # "ESP_OK")
                    => mqtt_cfg'.missing = "client"]_vars
    /\ []((pc = "InitMQTT" /\ MqttConfigured(nvs_store))
            => \A found \in SUBSET MqttCredentialKeys :
                  ENABLED (InitMQTT /\ mqtt_cfg'.found = found
                           /\ mqtt_cfg'.ret = "ESP_OK"))

\* The client was started after an Init that found no password.
C38_Witness ==
    /\ client_ = "started"
    /\ mqtt_cfg.ret = "ESP_OK"
    /\ mqtt_cfg.found = {"username"}
    /\ ~mqtt_cfg.credentials

(***************************************************************************)
(* The configuration web services.                                         *)
(***************************************************************************)
\* The handler that ran last, its request and what it did.
HandlerRan(op) == lastCall.op = op
SetOps == {"SetInt", "SetString", "SetBlob"}
CallsOf(ops) == SelectSeq(lastCall.calls, LAMBDA c : c[1] \in ops)
RepliedOnce(r) == lastCall.replies = <<r>>
\* get-key of key k on the store as it is, without a fault of the library.
GetKeyNow(k) ==
    DoConfigGetKey(nvs_store, nvs_ns, [NoHttpReq EXCEPT !.pre = "ok", !.key = k],
                   "none")
NumberNode(t, v) == [NoNode EXCEPT !.type = t, !.kind = "number", !.num = v]
TextNode(t, x) == [NoNode EXCEPT !.type = t, !.kind = "string", !.text = x]

\* C34: for every integer type T and every integer v in the range of T, a
\* set-key request {type: T, value: v} that succeeds is followed by a get-key
\* of the same key that returns {type: T, value: v}, values above 2^31-1 for
\* uint32 and the whole range of the 64-bit types included.
C34_NumericRoundTrip ==
    (/\ HandlerRan("DoConfigSetKey")
     /\ lastCall.err = "ESP_OK"
     /\ lastCall.req.kind = "number"
     /\ InRange(lastCall.req.type, lastCall.req.num))
        => \A out \in GetKeyNow(lastCall.key) :
              /\ out.ret = "ESP_OK"
              /\ out.replies = <<ReplyJson(<<NumberNode(lastCall.req.type,
                                                        lastCall.req.num)>>)>>

\* C35: set-key replies "Configuration set" only after its Set and then its
\* Commit both returned ok; a Set that returned ok is always followed by a
\* Commit, a Set that failed never is, and a request makes at most one Set
\* and at most one Commit.
C35_SetThenCommit ==
    HandlerRan("DoConfigSetKey") =>
        LET c == lastCall.calls
            sets == CallsOf(SetOps)
            commits == CallsOf({"Commit"})
        IN  /\ Len(sets) <= 1
            /\ Len(commits) <= 1
            /\ (\E r \in 1..Len(lastCall.replies) : lastCall.replies[r].status = 200)
                  => /\ RepliedOnce(Reply("Configuration set\n"))
                     /\ Len(c) = 3
                     /\ c[1] = OpenOk
                     /\ c[2][1] \in SetOps /\ c[2][2] = "ESP_OK"
                     /\ c[3] = Called("Commit", "ESP_OK")
            /\ (Len(sets) = 1 /\ sets[1][2] = "ESP_OK")
                  => (Len(commits) = 1 /\ c[Len(c)][1] = "Commit"
                      /\ c[Len(c) - 1] = sets[1])
            /\ (Len(sets) = 1 /\ sets[1][2] # "ESP_OK") => Len(commits) = 0
            /\ Len(sets) = 0 => Len(commits) = 0
C35_Witness ==
    /\ HandlerRan("DoConfigSetKey")
    /\ RepliedOnce(Reply("Configuration set\n"))
    /\ lastCall.calls = <<OpenOk, Called("SetBlob", "ESP_OK"),
                          Called("Commit", "ESP_OK")>>
    /\ lastSet.committed

\* C36: a set-key request that fails validation (unknown type string, a
\* number with a type that is no integer type, a string with a type other
\* than string and blob, a value that is neither) makes no Set and no Commit
\* and leaves every entry of the namespace as it was.
ValidationFails(req) ==
    /\ req.pre = "ok"
    /\ req.typed
    /\ \/ TypeOfTag(req.type) = "none"
       \/ req.kind = "number" /\ req.type \notin NvsIntTypes
       \/ req.kind = "string" /\ req.type \notin {"string", "blob"}
       \/ req.kind \notin {"number", "string"}
C36_InvalidLeavesStore ==
    [][(lastCall'.op = "DoConfigSetKey" /\ ValidationFails(lastCall'.req))
          => /\ nvs_store' = nvs_store
             /\ SelectSeq(lastCall'.calls,
                          LAMBDA c : c[1] \in SetOps \cup {"Commit"}) = <<>>
             /\ lastCall'.err = "ESP_FAIL"]_vars
C36_Witness ==
    /\ HandlerRan("DoConfigSetKey")
    /\ ValidationFails(lastCall.req)
    /\ lastCall.req.kind = "number"
    /\ lastCall.req.type = "blob"
    /\ lastCall.calls = <<OpenOk>>
    /\ nvs_store[lastCall.key].type = "uint32"

\* C32: when the value of a set-key request of type blob is not base64, the
\* handler that has opened the namespace answers with the decode error, which
\* is none of the errors of the store, and makes no SetBlob and no Commit.
StorageMessages ==
    {"Failed to open NVS handle", "Failed to set integer value",
     "Failed to set string value", "Failed to commit NVS"}
MalformedBlob(req) ==
    /\ req.pre = "ok"
    /\ req.typed
    /\ req.type = "blob"
    /\ req.kind = "string"
    /\ ~B64Valid(req.text, 0)
Base64RoundTrip(b) ==
    LET enc == Base64Encode(4 + Len(b) * 2, b)
        dec == Base64Decode(Len(B64Text(b)), B64Text(b))
    IN  /\ enc.ret = "0"
        /\ dec.ret = "0"
        /\ dec.bytes = b
C31_BlobRoundTrip ==
    /\ \A b \in HttpBlobs : Base64RoundTrip(b)
    /\ (/\ HandlerRan("DoConfigSetKey")
        /\ lastCall.err = "ESP_OK"
        /\ lastCall.req.type = "blob"
        /\ \E b \in HttpBlobs : lastCall.req.text = B64Text(b))
          => \A out \in GetKeyNow(lastCall.key) :
                /\ out.ret = "ESP_OK"
                /\ out.replies = <<ReplyJson(<<TextNode("blob", lastCall.req.text)>>)>>

\* C33: every invocation of a handler of the configuration services sends
\* exactly one response, a success and the handler returns ESP_OK or an error
\* with a message and the handler returns ESP_FAIL, and no success follows a
\* call on the store that returned an error.
ConfigHandlers ==
    {"DoConfigSetKey", "DoConfigGetKey", "DoConfigGetAll", "DoConfigDeleteKey",
     "DoConfigDeleteNameSpace"}
IterationEnd == Called("nvs_entry_find", "ESP_ERR_NVS_NOT_FOUND")
C33_OneResponse ==
    lastCall.op \in ConfigHandlers =>
        /\ Len(lastCall.replies) = 1
        /\ \/ /\ lastCall.err = "ESP_OK"
              /\ lastCall.replies[1].status = 200
              /\ \A i \in 1..Len(lastCall.calls) :
                    \/ lastCall.calls[i][2] = "ESP_OK"
                    \/ lastCall.calls[i] = IterationEnd
           \/ /\ lastCall.err = "ESP_FAIL"
              /\ lastCall.replies[1].status = 500
              /\ lastCall.replies[1].body # ""

====
